---- MODULE Spec2Model ----
(***************************************************************************)
(* Model of the Kepler KOI classifier glue of Hunting_EXOplanets-with-AI:  *)
(*   mlapp/predictor.py        feature pipeline and inference module        *)
(*   app/predictor_adapter.py  app-field adapter                            *)
(*   mlapp/training.py         offline retraining and artifact versioning   *)
(*   app/management/commands/calibrate_threshold.py                         *)
(*                                                                         *)
(* Numbers are exact terms <<kind, payload>>:                               *)
(*   <<"num", <<n, d>>>>   the rational n/d in lowest terms, d > 0          *)
(*   <<"nan", <<>>>>, <<"inf", <<>>>>, <<"ninf", <<>>>>   IEEE specials     *)
(*   <<"floor", <<>>>>     the clip bound 1e-9                              *)
(*   <<"micro", <<x>>>>    x * 1e-6                                         *)
(*   <<"sqrt", <<x>>>>, <<"log10", <<x>>>>, <<"mean", <<a, b>>>>            *)
(* Probabilities and thresholds are integers in percent (0..100).           *)
(***************************************************************************)
EXTENDS Integers, Sequences, FiniteSets, TLC

VARIABLES
    current,          \* models_store/current: classifier, config, kepler_clean.csv
    versions,         \* models_store/versions/<timestamp>
    clock,            \* UTC clock, in seconds
    run,              \* the training runs (retrain_from_csv invocations)
    nanTolerant,      \* whether the installed forest accepts NaN inputs
    modpc,            \* position of the import of mlapp/predictor.py
    defined,          \* names bound in the module globals of mlapp/predictor.py
    RF,               \* predictor.RF
    FEATURES,         \* predictor.FEATURES
    THRESHOLD,        \* predictor.THRESHOLD
    FEATURE_MEDIANS,  \* predictor.FEATURE_MEDIANS
    call,             \* the last inference call and what it handed to the classifier
    db                \* the ExoplanetCandidate table, in id order

fsVars  == <<current, versions, clock, run>>
modVars == <<modpc, defined, RF, FEATURES, THRESHOLD, FEATURE_MEDIANS>>
vars    == <<current, versions, clock, run, nanTolerant, modpc, defined, RF,
             FEATURES, THRESHOLD, FEATURE_MEDIANS, call, db>>

----------------------------------------------------------------------------
(* Bounds *)

MaxBatch == 2
MaxClock == 1

----------------------------------------------------------------------------
(* Exact numeric terms *)

NaN    == <<"nan", <<>>>>
PosInf == <<"inf", <<>>>>
NegInf == <<"ninf", <<>>>>
Floor  == <<"floor", <<>>>>
None   == <<"none", <<>>>>
Str(s) == <<"str", <<s>>>>

Abs(n) == IF n < 0 THEN -n ELSE n

\* the element of a one-element set, fully evaluated
Only(S) == CHOOSE x \in S : x = x

RECURSIVE GCD(_, _)
GCD(a, b) == IF b = 0 THEN a ELSE GCD(b, a % b)

Num(n, d) ==
    LET s == IF d < 0 THEN -1 ELSE 1
        g == GCD(Abs(n), Abs(d))
    IN  IF n = 0 THEN <<"num", <<0, 1>>>>
        ELSE <<"num", <<(s * n) \div g, (s * d) \div g>>>>

IntV(n) == Num(n, 1)

Kind(v)  == v[1]
IsNaN(v) == Kind(v) = "nan"
IsInf(v) == Kind(v) \in {"inf", "ninf"}
IsNum(v) == Kind(v) = "num"
N(v) == v[2][1]
D(v) == v[2][2]
Arg(v) == v[2][1]

RECURSIVE IsPow10(_)
IsPow10(n) == IF n = 1 THEN TRUE
              ELSE IF n > 1 /\ n % 10 = 0 THEN IsPow10(n \div 10) ELSE FALSE

RECURSIVE Exp10(_)
Exp10(n) == IF n <= 1 THEN 0 ELSE 1 + Exp10(n \div 10)

RECURSIVE Pow10(_)
Pow10(k) == IF k <= 0 THEN 1 ELSE 10 * Pow10(k - 1)

\* x * 24.0
Times24(v) == IF IsNum(v) THEN Num(N(v) * 24, D(v)) ELSE v

\* IEEE division a / b with divide and invalid warnings suppressed
Divide(a, b) ==
    IF IsNaN(a) \/ IsNaN(b) THEN NaN
    ELSE IF IsInf(a) /\ IsInf(b) THEN NaN
    ELSE IF IsInf(a) THEN
        IF N(b) >= 0 THEN a ELSE (IF a = PosInf THEN NegInf ELSE PosInf)
    ELSE IF IsInf(b) THEN IntV(0)
    ELSE IF N(b) = 0 THEN
        (IF N(a) > 0 THEN PosInf ELSE IF N(a) < 0 THEN NegInf ELSE NaN)
    ELSE Num(N(a) * D(b), D(a) * N(b))

\* Series.clip(lower=1e-9); every positive rational of the model exceeds 1e-9
Clip(v) ==
    IF IsNaN(v) THEN NaN
    ELSE IF v = PosInf THEN PosInf
    ELSE IF v = NegInf THEN Floor
    ELSE IF N(v) <= 0 THEN Floor
    ELSE v

\* x * 1e-6
Micro(v) == IF IsNaN(v) \/ IsInf(v) THEN v ELSE <<"micro", <<v>>>>

\* np.sqrt of a non-negative value
Sqrt(v) == IF IsNaN(v) \/ IsInf(v) THEN v ELSE <<"sqrt", <<v>>>>

\* np.log10 of a clipped (positive) value; exact on powers of ten
Log10(v) ==
    IF IsNaN(v) \/ IsInf(v) THEN v
    ELSE IF v = Floor THEN IntV(-9)
    ELSE IF IsNum(v) /\ D(v) = 1 /\ IsPow10(N(v)) THEN IntV(Exp10(N(v)))
    ELSE IF IsNum(v) /\ N(v) = 1 /\ IsPow10(D(v)) THEN IntV(-Exp10(D(v)))
    ELSE <<"log10", <<v>>>>

\* the argument whose log10 a value of a log column is
Unlog(v) ==
    IF Kind(v) = "log10" THEN Arg(v)
    ELSE IF N(v) = -9 THEN Floor
    ELSE IF N(v) >= 0 THEN IntV(Pow10(N(v)))
    ELSE Num(1, Pow10(-N(v)))

\* strict order of the finite values that share a column
RECURSIVE Less(_, _)
Less(a, b) ==
    IF IsNum(a) /\ IsNum(b) THEN N(a) * D(b) < N(b) * D(a)
    ELSE IF a = Floor /\ b = Floor THEN FALSE
    ELSE IF a = Floor /\ IsNum(b) THEN N(b) > 0
    ELSE IF IsNum(a) /\ b = Floor THEN N(a) <= 0
    ELSE IF Kind(a) = "log10" \/ Kind(b) = "log10" THEN Less(Unlog(a), Unlog(b))
    ELSE IF Kind(a) = Kind(b) /\ Kind(a) \in {"micro", "sqrt"} THEN Less(Arg(a), Arg(b))
    ELSE FALSE

\* (a + b) / 2
Mean(a, b) ==
    IF a = b THEN a
    ELSE IF IsNum(a) /\ IsNum(b) THEN Num(N(a) * D(b) + N(b) * D(a), 2 * D(a) * D(b))
    ELSE <<"mean", <<a, b>>>>

\* the k-th smallest entry of a non-empty sequence of finite values
Kth(s, k) ==
    CHOOSE v \in {s[i] : i \in DOMAIN s} :
        /\ Cardinality({i \in DOMAIN s : Less(s[i], v)}) < k
        /\ Cardinality({i \in DOMAIN s : ~Less(v, s[i])}) >= k

\* Series.median(): NaN entries are skipped, an all-NaN column has median NaN
Median(col) ==
    LET s == SelectSeq(col, LAMBDA v : ~IsNaN(v))
        n == Len(s)
    IN  IF n = 0 THEN NaN
        ELSE IF n % 2 = 1 THEN Kth(s, (n + 1) \div 2)
        ELSE Mean(Kth(s, n \div 2), Kth(s, n \div 2 + 1))

----------------------------------------------------------------------------
(* Data frames: [cols |-> set of column names, rows |-> sequence of rows] *)

\* pd.to_numeric(value, errors="coerce")
ToNumeric(v) ==
    IF Kind(v) = "none" THEN NaN
    ELSE IF Kind(v) = "str" THEN
        (IF Arg(v) = "10" THEN IntV(10)
         ELSE IF Arg(v) = "inf" THEN PosInf
         ELSE NaN)
    ELSE v

\* pd.DataFrame(list of dicts): the columns are the union of the keys
FromRecords(recs) ==
    LET cols == UNION {DOMAIN recs[i] : i \in DOMAIN recs}
    IN  [cols |-> cols,
         rows |-> [i \in DOMAIN recs |->
                     [c \in cols |-> IF c \in DOMAIN recs[i] THEN recs[i][c] ELSE NaN]]]

\* df[c] = series, adding or overwriting column c
WithCol(df, c, series) ==
    [cols |-> df.cols \cup {c},
     rows |-> [i \in DOMAIN df.rows |->
                 [k \in df.cols \cup {c} |-> IF k = c THEN series[i] ELSE df.rows[i][k]]]]

_coerce(df) ==
    [cols |-> df.cols,
     rows |-> [i \in DOMAIN df.rows |-> [c \in df.cols |-> ToNumeric(df.rows[i][c])]]]

\* the derived series of a frame, row by row
DutyCycleOf(df) ==
    [i \in DOMAIN df.rows |->
        Divide(df.rows[i]["koi_duration"], Times24(df.rows[i]["koi_period"]))]
DepthFracOf(df) == [i \in DOMAIN df.rows |-> Micro(Clip(df.rows[i]["koi_depth"]))]
RprstarOf(df)   == [i \in DOMAIN df.rows |-> Sqrt(df.rows[i]["depth_frac"])]
LogPeriodOf(df) == [i \in DOMAIN df.rows |-> Log10(Clip(df.rows[i]["koi_period"]))]
LogDepthOf(df)  == [i \in DOMAIN df.rows |-> Log10(Clip(df.rows[i]["koi_depth"]))]

\* the three columns derived when period, duration and depth are all present
DeriveTransit(df) ==
    IF {"koi_period", "koi_duration", "koi_depth"} \subseteq df.cols
    THEN Only({WithCol(b, "rprstar_est", RprstarOf(b)) :
                 b \in {Only({WithCol(a, "depth_frac", DepthFracOf(a)) :
                                a \in {WithCol(df, "duty_cycle", DutyCycleOf(df))}})}})
    ELSE df

DeriveLogPeriod(df) ==
    IF "koi_period" \in df.cols THEN WithCol(df, "log_period", LogPeriodOf(df)) ELSE df

DeriveLogDepth(df) ==
    IF "koi_depth" \in df.cols THEN WithCol(df, "log_depth", LogDepthOf(df)) ELSE df

_derive(df) ==
    Only({DeriveLogDepth(d2) :
            d2 \in {Only({DeriveLogPeriod(d1) : d1 \in {Only({DeriveTransit(d) : d \in {df}})}})}})

SeqToSet(s) == {s[i] : i \in DOMAIN s}

\* the slip of keeping every column of the frame, the absent features added as NaN
Align_asgiven(df, features) ==
    [i \in DOMAIN df.rows |->
        [c \in df.cols \cup SeqToSet(features) |->
            IF c \in df.cols THEN df.rows[i][c] ELSE NaN]]

\* X = df[features] after every absent feature was added as NaN
Align(df, features) ==
    [i \in DOMAIN df.rows |->
        [c \in SeqToSet(features) |-> IF c \in df.cols THEN df.rows[i][c] ELSE NaN]]

\* X.replace([inf, -inf], nan)
ReplaceInf(X) ==
    [i \in DOMAIN X |-> [c \in DOMAIN X[i] |-> IF IsInf(X[i][c]) THEN NaN ELSE X[i][c]]]

\* X.fillna(value=dict or Series): a NaN fill value fills nothing
FillNa(X, fill) ==
    [i \in DOMAIN X |->
        [c \in DOMAIN X[i] |->
            IF IsNaN(X[i][c]) /\ c \in DOMAIN fill THEN fill[c] ELSE X[i][c]]]

Column(X, c) == [i \in DOMAIN X |-> X[i][c]]

\* X.median(numeric_only=True)
ColumnMedians(X, cols) == [c \in cols |-> Median(Column(X, c))]

HasNaN(X) == \E i \in DOMAIN X : \E c \in DOMAIN X[i] : IsNaN(X[i][c])

----------------------------------------------------------------------------
(* Artifact files *)

BASE_FEATURES ==
    <<"koi_period", "koi_duration", "koi_depth", "koi_steff", "koi_kepmag", "koi_prad",
      "koi_slogg", "koi_srad", "koi_teq", "koi_model_snr", "koi_impact">>

DERIVED_FEATURES ==
    <<"duty_cycle", "depth_frac", "rprstar_est", "log_period", "log_depth">>

\* rf_koi.joblib: a fitted forest is determined by the dataset it was fitted on
NoClf == [exists |-> FALSE, corrupt |-> FALSE, trained_on |-> ""]
Clf(data) == [exists |-> TRUE, corrupt |-> FALSE, trained_on |-> data]

\* a file joblib.load cannot unpickle
CorruptClf == [NoClf EXCEPT !.exists = TRUE, !.corrupt = TRUE]

\* final_config.json
NoCfg == [exists |-> FALSE, corrupt |-> FALSE, features |-> <<>>, has_threshold |-> FALSE,
          threshold |-> 0, created_utc |-> -1, metrics_of |-> ""]
Cfg(features, hasThr, thr, ts, data) ==
    [exists |-> TRUE, corrupt |-> FALSE, features |-> features, has_threshold |-> hasThr,
     threshold |-> thr, created_utc |-> ts, metrics_of |-> data]

\* a file json.load cannot parse
CorruptCfg == [NoCfg EXCEPT !.exists = TRUE, !.corrupt = TRUE]

\* kepler_clean.csv of the current directory
NoCsv == [exists |-> FALSE, rows |-> <<>>]
KeplerClean ==
    [exists |-> TRUE,
     rows |-> << [kepoi_name |-> Str("K00001.01"), koi_period |-> IntV(1),
                  koi_duration |-> IntV(2), koi_depth |-> IntV(100)],
                 [kepoi_name |-> Str("K00002.01"), koi_period |-> IntV(10),
                  koi_duration |-> IntV(3), koi_depth |-> IntV(100)],
                 [kepoi_name |-> Str("K00003.01"), koi_period |-> IntV(100),
                  koi_duration |-> IntV(4), koi_depth |-> IntV(0)] >>]

EmptyDir == [clf |-> NoClf, cfg |-> NoCfg]

----------------------------------------------------------------------------
(* The classifier: RandomForestClassifier.predict_proba, row by row *)

ProbUnits == 100

ModelSeed(data) ==
    IF data = "shipped" THEN 17
    ELSE IF data = "koiA.csv" THEN 41
    ELSE IF data = "koiB.csv" THEN 73
    ELSE 5

RECURSIVE Code(_)
Code(v) ==
    IF IsNum(v) THEN 3 * Abs(N(v)) + D(v)
    ELSE IF Kind(v) \in {"micro", "sqrt", "log10"} THEN 13 + 2 * Code(Arg(v))
    ELSE IF Kind(v) = "mean" THEN 1 + Code(v[2][1]) + Code(v[2][2])
    ELSE IF Kind(v) = "floor" THEN 11
    ELSE 7

RECURSIVE RowSum(_, _, _)
RowSum(row, features, i) ==
    IF i = 0 THEN 0 ELSE i * Code(row[features[i]]) + RowSum(row, features, i - 1)

\* positive-class probability of one row, in percent
Proba(clf, row, features) ==
    (ModelSeed(clf.trained_on) + RowSum(row, features, Len(features))) % (ProbUnits + 1)

----------------------------------------------------------------------------
(* mlapp/predictor.py: module import *)

EmptyMedians == [c \in {} |-> NaN]

DefaultThreshold == 32

\* _derive(_coerce(frame of the records))
DerivedFrame(recs) ==
    Only({_derive(c) : c \in {Only({_coerce(f) : f \in {FromRecords(recs)}})}})

_load_feature_medians(defs, csv, features) ==
    IF ~csv.exists THEN EmptyMedians
    ELSE IF ~({"_derive", "_coerce"} \subseteq defs) THEN EmptyMedians
    ELSE Only({IF SeqToSet(features) \cap df.cols = {} THEN EmptyMedians
               ELSE Only({ColumnMedians(X, SeqToSet(features) \cap df.cols) :
                            X \in {ReplaceInf(df.rows)}}) :
               df \in {DerivedFrame(csv.rows)}})

\* the exception of load(path) or json.load(open(path)), "none" when the file loads
LoadError(file) ==
    IF ~file.exists THEN "FileNotFoundError"
    ELSE IF file.corrupt THEN "DeserializationError"
    ELSE "none"

\* the slip of falling back to an empty configuration when final_config.json is
\* missing or unreadable
ImportArtifacts_lenient ==
    /\ modpc = "start"
    /\ IF LoadError(current.clf) # "none"
       THEN /\ modpc' = LoadError(current.clf)
            /\ UNCHANGED <<RF, FEATURES, THRESHOLD>>
       ELSE /\ RF' = current.clf
            /\ FEATURES' = IF LoadError(current.cfg) # "none" THEN <<>>
                           ELSE current.cfg.features
            /\ THRESHOLD' = IF LoadError(current.cfg) = "none" /\ current.cfg.has_threshold
                            THEN current.cfg.threshold ELSE DefaultThreshold
            /\ modpc' = "artifacts"
    /\ UNCHANGED <<defined, FEATURE_MEDIANS, fsVars, nanTolerant, db, call>>

\* lines 7-14: RF, CFG, FEATURES, THRESHOLD; an exception ends the import, and RF is
\* already bound when the configuration fails to load
ImportArtifacts ==
    /\ modpc = "start"
    /\ IF LoadError(current.clf) # "none"
       THEN /\ modpc' = LoadError(current.clf)
            /\ UNCHANGED <<RF, FEATURES, THRESHOLD>>
       ELSE IF LoadError(current.cfg) # "none"
       THEN /\ modpc' = LoadError(current.cfg)
            /\ RF' = current.clf
            /\ UNCHANGED <<FEATURES, THRESHOLD>>
       ELSE /\ RF' = current.clf
            /\ FEATURES' = current.cfg.features
            /\ THRESHOLD' = IF current.cfg.has_threshold THEN current.cfg.threshold
                            ELSE DefaultThreshold
            /\ modpc' = "artifacts"
    /\ UNCHANGED <<defined, FEATURE_MEDIANS, fsVars, nanTolerant, db, call>>

\* lines 17-30: def _load_feature_medians, then FEATURE_MEDIANS = _load_feature_medians()
ImportMedians ==
    /\ modpc = "artifacts"
    /\ defined' = defined \cup {"_load_feature_medians"}
    /\ FEATURE_MEDIANS' = _load_feature_medians(defined', current.csv, FEATURES)
    /\ modpc' = "medians"
    /\ UNCHANGED <<RF, FEATURES, THRESHOLD, fsVars, nanTolerant, db, call>>

\* lines 32-77: def _coerce, _derive, _prepare, predict_one, predict_batch
ImportFunctions ==
    /\ modpc = "medians"
    /\ defined' = defined \cup {"_coerce", "_derive", "_prepare", "predict_one", "predict_batch"}
    /\ modpc' = "ready"
    /\ UNCHANGED <<RF, FEATURES, THRESHOLD, FEATURE_MEDIANS, fsVars, nanTolerant, db, call>>

----------------------------------------------------------------------------
(* mlapp/predictor.py: _prepare, predict_one, predict_batch *)

Restrict(f, S) == [k \in DOMAIN f \cap S |-> f[k]]

\* the slip of working on the caller's DataFrame itself
WorkingFrame_nocopy(kind, recs) == [df |-> FromRecords(recs), shared |-> kind = "frame"]

\* line 48: payload.copy() of a DataFrame, a new DataFrame of a dict or a list; the
\* frame _coerce and _derive write to is never the caller's object
WorkingFrame(kind, recs) == [df |-> FromRecords(recs), shared |-> FALSE]

\* the caller's object once _coerce and _derive have written to the working frame
CallerAfter(kind, recs) ==
    IF WorkingFrame(kind, recs).shared
    THEN Only({_derive(c) : c \in {Only({_coerce(f) : f \in {WorkingFrame(kind, recs).df}})}}).rows
    ELSE recs

\* the stages of _prepare on a list of records
PrepAligned(recs) ==
    Only({ReplaceInf(X) : X \in {Only({Align(df, FEATURES) : df \in {DerivedFrame(recs)}})}})

PrepRefFilled(recs) ==
    IF DOMAIN FEATURE_MEDIANS # {}
    THEN Only({FillNa(X, Restrict(FEATURE_MEDIANS, SeqToSet(FEATURES))) :
                 X \in {PrepAligned(recs)}})
    ELSE PrepAligned(recs)

_prepare(recs) ==
    Only({Only({FillNa(X, med) : med \in {ColumnMedians(X, SeqToSet(FEATURES))}}) :
            X \in {PrepRefFilled(recs)}})

NoThr == [given |-> FALSE, value |-> 0]
Thr(t) == [given |-> TRUE, value |-> t]

\* the slip "threshold or THRESHOLD": an override of 0.0 counts as not given
UsedThreshold_falsy(threshold) ==
    IF threshold.given /\ threshold.value # 0 THEN threshold.value ELSE THRESHOLD

\* float(THRESHOLD if threshold is None else threshold)
UsedThreshold(threshold) == IF threshold.given THEN threshold.value ELSE THRESHOLD

LabelOf(p, thr) == IF p >= thr THEN 1 ELSE 0

\* RF.predict_proba(X) raises on NaN unless the forest supports missing values
ProbaRaises(X) == HasNaN(X) /\ ~nanTolerant

\* lines 65-67 on the prepared matrix X
ClassifyOne(X, threshold) ==
    [X |-> X, invoked |-> TRUE,
     status |-> IF ProbaRaises(X) THEN "ValueError" ELSE "ok",
     out |-> IF ProbaRaises(X) THEN <<>>
             ELSE <<[probability |-> Proba(RF, X[1], FEATURES),
                     label |-> LabelOf(Proba(RF, X[1], FEATURES), UsedThreshold(threshold)),
                     threshold |-> UsedThreshold(threshold)]>>]

predict_one(record, threshold) ==
    Only({ClassifyOne(X, threshold) : X \in {_prepare(<<record>>)}})

\* lines 71-77 on the prepared matrix X
ClassifyBatch(X, threshold) ==
    [X |-> X, invoked |-> TRUE,
     status |-> IF ProbaRaises(X) THEN "ValueError" ELSE "ok",
     out |-> IF ProbaRaises(X) THEN <<>>
             ELSE [i \in DOMAIN X |->
                     [x |-> X[i], probability |-> Proba(RF, X[i], FEATURES),
                      label |-> LabelOf(Proba(RF, X[i], FEATURES), UsedThreshold(threshold))]]]

predict_batch(records, threshold) ==
    Only({ClassifyBatch(X, threshold) : X \in {_prepare(records)}})

NoCall == [op |-> "none", input |-> <<>>, payload |-> <<>>, threshold |-> NoThr,
           X |-> <<>>, invoked |-> FALSE, status |-> "none", out |-> <<>>,
           kind |-> "none", after |-> <<>>]

PredictOne(Recs, Thrs) ==
    /\ modpc = "ready"
    /\ call.op = "none"
    /\ \E rec \in Recs, t \in Thrs :
         \E r \in {predict_one(rec, t)} :
             call' = [op |-> "predict_one", input |-> <<rec>>, payload |-> <<rec>>,
                      threshold |-> t, X |-> r.X, invoked |-> r.invoked,
                      status |-> r.status, out |-> r.out,
                      kind |-> "dict", after |-> CallerAfter("dict", <<rec>>)]
    /\ UNCHANGED <<fsVars, modVars, nanTolerant, db>>

RECURSIVE SeqsUpTo(_, _)
SeqsUpTo(S, n) ==
    IF n = 0 THEN {<<>>}
    ELSE LET shorter == SeqsUpTo(S, n - 1)
         IN  shorter \cup {Append(s, x) : s \in {t \in shorter : Len(t) = n - 1}, x \in S}

Batches(Recs) == SeqsUpTo(Recs, MaxBatch) \ {<<>>}

\* records is a list of dicts or a DataFrame whose rows are the records
PredictBatch(Recs, Thrs, Kinds) ==
    /\ modpc = "ready"
    /\ call.op = "none"
    /\ \E recs \in Batches(Recs), t \in Thrs, kind \in Kinds :
         \E r \in {predict_batch(recs, t)} :
             call' = [op |-> "predict_batch", input |-> recs, payload |-> recs,
                      threshold |-> t, X |-> r.X, invoked |-> r.invoked,
                      status |-> r.status, out |-> r.out,
                      kind |-> kind, after |-> CallerAfter(kind, recs)]
    /\ UNCHANGED <<fsVars, modVars, nanTolerant, db>>

----------------------------------------------------------------------------
(* app/predictor_adapter.py *)

APP_TO_KOI ==
    [orbital_period |-> "koi_period",
     transit_duration |-> "koi_duration",
     transit_depth |-> "koi_depth",
     stellar_effective_temperature |-> "koi_steff",
     planetary_radius |-> "koi_prad",
     stellar_radius |-> "koi_srad",
     equilibrium_temperature |-> "koi_teq",
     impact_parameter |-> "koi_impact"]

\* the payload built by the loop over APP_TO_KOI.items()
AdapterPayload(features) ==
    LET present == {a \in DOMAIN APP_TO_KOI : a \in DOMAIN features}
    IN  [k \in {APP_TO_KOI[a] : a \in present} |->
            features[CHOOSE a \in present : APP_TO_KOI[a] = k]]

AdapterLabel(y_hat) == IF y_hat = 1 THEN "CONFIRMED" ELSE "FALSE_POSITIVE"

\* the slip of reporting P(planet) as the false-positive probability
AdapterDetails_nocomplement(p_planet) ==
    [probability_confirmed |-> p_planet,
     probability_candidate |-> 0,
     probability_false_positive |-> p_planet]

AdapterDetails(p_planet) ==
    [probability_confirmed |-> p_planet,
     probability_candidate |-> 0,
     probability_false_positive |-> ProbUnits - p_planet]

AdapterConfidence(p_planet, y_hat) == IF y_hat = 1 THEN p_planet ELSE ProbUnits - p_planet

\* lines 27-37 on the result r of predict_one(payload)
AdapterResult(payload, r) ==
    [payload |-> payload, X |-> r.X, invoked |-> r.invoked, status |-> r.status,
     out |-> IF r.status # "ok" THEN <<>>
             ELSE <<[prediction |-> AdapterLabel(r.out[1].label),
                     confidence |-> AdapterConfidence(r.out[1].probability, r.out[1].label),
                     details |-> AdapterDetails(r.out[1].probability),
                     probability |-> r.out[1].probability,
                     label |-> r.out[1].label]>>]

predict_with_kepler_model(features) ==
    Only({Only({AdapterResult(payload, r) : r \in {predict_one(payload, NoThr)}}) :
            payload \in {AdapterPayload(features)}})

PredictWithKeplerModel(Inputs) ==
    /\ modpc = "ready"
    /\ call.op = "none"
    /\ \E features \in Inputs :
         \E r \in {predict_with_kepler_model(features)} :
             call' = [op |-> "predict_with_kepler_model", input |-> <<features>>,
                      payload |-> <<r.payload>>, threshold |-> NoThr, X |-> r.X,
                      invoked |-> r.invoked, status |-> r.status, out |-> r.out,
                      kind |-> "dict", after |-> <<features>>]
    /\ UNCHANGED <<fsVars, modVars, nanTolerant, db>>

\* a candidate row: id, additional_data (a JSON object, {} when null) and the model
\* fields that are not null
Candidate(id, ad, attrs) == [id |-> id, additional_data |-> ad, attrs |-> attrs]

EmptyObject == [k \in {} |-> None]

\* lines 49-70: koi_* values of additional_data first, then the model fields
CandidatePayload(c) ==
    LET ad      == c.additional_data
        fromAd  == {APP_TO_KOI[a] : a \in DOMAIN APP_TO_KOI} \cap DOMAIN ad
        fromAttr == {a \in DOMAIN APP_TO_KOI :
                        /\ APP_TO_KOI[a] \notin fromAd
                        /\ a \in DOMAIN c.attrs
                        /\ c.attrs[a] # None}
    IN  [k \in fromAd \cup {APP_TO_KOI[a] : a \in fromAttr} |->
            IF k \in fromAd THEN ad[k]
            ELSE c.attrs[CHOOSE a \in fromAttr : APP_TO_KOI[a] = k]]

MetaKeys ==
    {"object_id", "kepoi_name", "kepler_name", "kepid", "koi_disposition", "koi_period",
     "koi_duration", "koi_depth", "koi_model_snr", "duty_cycle", "koi_prad"}

\* lines 75-88: candidate_id and ad.get(key) for the eleven keys
CandidateMeta(c) ==
    [k \in MetaKeys \cup {"candidate_id"} |->
        IF k = "candidate_id" THEN IntV(c.id)
        ELSE IF k \in DOMAIN c.additional_data THEN c.additional_data[k]
        ELSE None]

\* lines 47-74: the candidates whose payload is not empty, in query order
Scored(cands) == SelectSeq(cands, LAMBDA c : DOMAIN CandidatePayload(c) # {})

\* lines 96-106: the meta of position i with the prediction of row i
CandidateItem(meta, row) ==
    [meta |-> meta,
     probability_confirmed |-> row.probability,
     probability_candidate |-> 0,
     probability_false_positive |-> ProbUnits - row.probability,
     label |-> AdapterLabel(row.label),
     probability |-> AdapterConfidence(row.probability, row.label)]

\* the slip of returning the items in query order
SortByProbability_unsorted(items) == items

\* line 108: list.sort(key=probability), a stable sort
SortByProbability(items) ==
    LET rank(i) == 1 + Cardinality({j \in DOMAIN items :
                         \/ items[j].probability < items[i].probability
                         \/ items[j].probability = items[i].probability /\ j < i})
    IN  [k \in DOMAIN items |-> items[CHOOSE i \in DOMAIN items : rank(i) = k]]

\* lines 90-109 on the result r of predict_batch(records)
BatchItems(scored, r) ==
    IF r.status # "ok" THEN <<>>
    ELSE SortByProbability([i \in DOMAIN scored |->
                               CandidateItem(CandidateMeta(scored[i]), r.out[i])])

batch_probability_from_candidates(cands) ==
    LET scored  == Scored(cands)
        records == [i \in DOMAIN scored |-> CandidatePayload(scored[i])]
    IN  IF records = <<>>
        THEN [payload |-> <<>>, X |-> <<>>, invoked |-> FALSE, status |-> "ok", out |-> <<>>]
        ELSE Only({[payload |-> records, X |-> r.X, invoked |-> r.invoked,
                    status |-> r.status, out |-> BatchItems(scored, r)] :
                   r \in {predict_batch(records, NoThr)}})

\* every list of up to MaxBatch distinct candidates
Queries(Cands) ==
    {q \in SeqsUpTo(Cands, MaxBatch) : \A i, j \in DOMAIN q : i # j => q[i] # q[j]}

BatchProbabilityFromCandidates(Cands) ==
    /\ modpc = "ready"
    /\ call.op = "none"
    /\ \E cands \in Queries(Cands) :
         \E r \in {batch_probability_from_candidates(cands)} :
             call' = [op |-> "batch_probability_from_candidates", input |-> cands,
                      payload |-> r.payload, threshold |-> NoThr, X |-> r.X,
                      invoked |-> r.invoked, status |-> r.status, out |-> r.out,
                      kind |-> "list", after |-> cands]
    /\ UNCHANGED <<fsVars, modVars, nanTolerant, db>>

----------------------------------------------------------------------------
(* app/management/commands/import_kepler_clean.py, backfill_kepler_predictions.py
   and sync_kepler_data of app/views.py *)

MaxRows == 7

\* the model fields a row is mapped to, the columns each is read from and its default
FieldSources ==
    [orbital_period                |-> <<"orbital_period", "koi_period">>,
     transit_duration              |-> <<"transit_duration", "koi_duration">>,
     planetary_radius              |-> <<"planetary_radius", "koi_prad">>,
     stellar_radius                |-> <<"stellar_radius", "koi_srad">>,
     stellar_mass                  |-> <<"stellar_mass", "koi_smass">>,
     stellar_effective_temperature |-> <<"stellar_effective_temperature", "koi_steff">>,
     transit_depth                 |-> <<"transit_depth", "koi_depth", "koi_depth_err1">>,
     impact_parameter              |-> <<"impact_parameter", "koi_impact">>,
     equilibrium_temperature       |-> <<"equilibrium_temperature", "koi_teq">>]

FieldDefault(a) == IF a = "stellar_mass" THEN IntV(1) ELSE IntV(0)

IsBlank(v) == v = None \/ v = Str("")

\* f(*names, default): the first value of the row that is neither None nor ''
FirstField(row, names, default) ==
    LET hits == {i \in DOMAIN names : names[i] \in DOMAIN row /\ ~IsBlank(row[names[i]])}
    IN  IF hits = {} THEN default
        ELSE row[names[CHOOSE i \in hits : \A j \in hits : i <= j]]

\* to_float(value, default): float() of the text, the default when it is blank or
\* not a number
to_float(value, default) ==
    IF IsBlank(value) THEN default
    ELSE IF Kind(value) = "str" THEN default
    ELSE value

\* lines 91-106: the nine model fields, then the other non-blank columns of the row
RowFeatures(attrs, row) ==
    [k \in DOMAIN attrs \cup {c \in DOMAIN row : ~IsBlank(row[c])} |->
        IF k \in DOMAIN attrs THEN attrs[k] ELSE row[k]]

\* conf * 100.0 of a confidence counted in 1/ProbUnits
Percent(conf) == Num(conf * 100, ProbUnits)

\* lines 108-115 and backfill lines 43-45 on the result r of predict_with_kepler_model
MlFields(r) ==
    IF r.status = "ok"
    THEN [raised |-> FALSE, ml_prediction |-> Str(r.out[1].prediction),
          ml_confidence |-> Percent(r.out[1].confidence)]
    ELSE [raised |-> TRUE, ml_prediction |-> None, ml_confidence |-> None]

\* _row_to_candidate_kwargs: a failed prediction leaves both ml fields null
RowToCandidateKwargs(row) ==
    LET attrs == [a \in DOMAIN FieldSources |->
                    to_float(FirstField(row, FieldSources[a], None), FieldDefault(a))]
        ml    == Only({MlFields(r) :
                       r \in {predict_with_kepler_model(RowFeatures(attrs, row))}})
    IN  [name |-> FirstField(row, <<"name", "kepoi_name", "kepid", "koi_name">>,
                             Str("Kepler-Candidate")),
         koi_id |-> FirstField(row, <<"koi_id", "kepoi_name">>, None),
         attrs |-> attrs,
         additional_data |-> row,
         ml_prediction |-> ml.ml_prediction,
         ml_confidence |-> ml.ml_confidence]

\* a row of the ExoplanetCandidate table; mission is that of its dataset
CandidateRow(id, mission, data) ==
    [id |-> id, mission |-> mission, name |-> data.name, koi_id |-> data.koi_id,
     attrs |-> data.attrs, additional_data |-> data.additional_data,
     ml_prediction |-> data.ml_prediction, ml_confidence |-> data.ml_confidence]

IsKepler(c) == c.mission = "Kepler"

\* the primary key of the next insert
NextId(table) ==
    IF table = <<>> THEN 1
    ELSE 1 + (CHOOSE m \in {table[i].id : i \in DOMAIN table} :
                 \A i \in DOMAIN table : table[i].id <= m)

\* lines 126-133: the rows read before the limit stops the loop
RowsRead(rows, limit) ==
    IF limit > 0 /\ limit < Len(rows) THEN SubSeq(rows, 1, limit) ELSE rows

\* objects.create for every row read, in file order
RECURSIVE CreateAll(_, _)
CreateAll(table, rows) ==
    IF rows = <<>> THEN table
    ELSE CreateAll(Append(table, Only({CandidateRow(NextId(table), "Kepler", d) :
                                        d \in {RowToCandidateKwargs(Head(rows))}})),
                   Tail(rows))

\* lines 41-43: the delete runs in autocommit mode, before the transaction is opened
Truncated(table) == SelectSeq(table, LAMBDA c : ~IsKepler(c))

\* handle of import_kepler_clean; limit 0 stands for None and failAt is the row at
\* which reading or inserting raises (0: none does), which rolls the inserts back
import_kepler_clean(table, csv, truncate, limit, failAt) ==
    IF ~csv.exists THEN [status |-> "CommandError", table |-> table]
    ELSE LET rows   == RowsRead(csv.rows, limit)
             failed == failAt \in DOMAIN rows
             kept   == IF truncate THEN Truncated(table) ELSE table
         IN  IF failed THEN [status |-> "DatabaseError", table |-> kept]
             ELSE [status |-> "ok", table |-> CreateAll(kept, rows)]

\* lines 16-22: the Kepler candidates, those without a prediction under
\* --missing-only, the newest first up to the limit
Selected(table, missing_only, limit) ==
    LET qs == {i \in DOMAIN table :
                  /\ IsKepler(table[i])
                  /\ missing_only => table[i].ml_prediction = None}
    IN  IF limit > 0
        THEN {i \in qs : Cardinality({j \in qs : j > i}) < limit}
        ELSE qs

\* the column names that start with koi_
KoiKeys == SeqToSet(BASE_FEATURES) \cup {"koi_disposition", "koi_score", "koi_smass"}

\* lines 27-42: the model fields, then the non-blank koi_* keys of additional_data
BackfillFeatures(c) ==
    LET ad  == c.additional_data
        koi == {k \in DOMAIN ad : k \in KoiKeys /\ ~IsBlank(ad[k])}
    IN  [k \in DOMAIN c.attrs \cup koi |->
            IF k \in DOMAIN c.attrs THEN c.attrs[k] ELSE ad[k]]

\* handle of backfill_kepler_predictions: a prediction that raises ends the command
\* and rolls its updates back
backfill_kepler_predictions(table, missing_only, limit) ==
    LET sel == Selected(table, missing_only, limit)
        ml  == [i \in sel |->
                  Only({MlFields(r) :
                        r \in {predict_with_kepler_model(BackfillFeatures(table[i]))}})]
    IN  IF \E i \in sel : ml[i].raised
        THEN [status |-> "ValueError", table |-> table, updated |-> {}]
        ELSE [status |-> "ok",
              table |-> [i \in DOMAIN table |->
                           IF i \in sel
                           THEN [table[i] EXCEPT !.ml_prediction = ml[i].ml_prediction,
                                                 !.ml_confidence = ml[i].ml_confidence]
                           ELSE table[i]],
              updated |-> {table[i].id : i \in sel}]

\* sync_kepler_data: import without truncate, then backfill --missing-only; an
\* exception of either ends the view with an error message
sync_kepler_data(table, csv, failAt) ==
    LET imp == Only({r : r \in {import_kepler_clean(table, csv, FALSE, 0, failAt)}})
    IN  IF imp.status # "ok"
        THEN [status |-> imp.status, table |-> imp.table, updated |-> {}]
        ELSE Only({r : r \in {backfill_kepler_predictions(imp.table, TRUE, 0)}})

CommandCall(op, options, status, updated) ==
    [NoCall EXCEPT !.op = op, !.input = <<options>>, !.status = status,
                   !.out = <<updated>>]

ImportKeplerClean(Truncates, Limits) ==
    /\ modpc = "ready"
    /\ call.op = "none"
    /\ \E truncate \in Truncates, limit \in Limits, failAt \in 0..Len(current.csv.rows) :
         \E r \in {import_kepler_clean(db, current.csv, truncate, limit, failAt)} :
             /\ Len(r.table) <= MaxRows
             /\ db' = r.table
             /\ call' = CommandCall("import_kepler_clean",
                                    [truncate |-> truncate, limit |-> limit],
                                    r.status, {})
    /\ UNCHANGED <<fsVars, modVars, nanTolerant>>

BackfillKeplerPredictions(MissingOnly, Limits) ==
    /\ modpc = "ready"
    /\ call.op = "none"
    /\ \E missing_only \in MissingOnly, limit \in Limits :
         \E r \in {backfill_kepler_predictions(db, missing_only, limit)} :
             /\ db' = r.table
             /\ call' = CommandCall("backfill_kepler_predictions",
                                    [missing_only |-> missing_only, limit |-> limit],
                                    r.status, r.updated)
    /\ UNCHANGED <<fsVars, modVars, nanTolerant>>

SyncKeplerData ==
    /\ modpc = "ready"
    /\ call.op = "none"
    /\ \E failAt \in 0..Len(current.csv.rows) :
         \E r \in {sync_kepler_data(db, current.csv, failAt)} :
             /\ Len(r.table) <= MaxRows
             /\ db' = r.table
             /\ call' = CommandCall("sync_kepler_data",
                                    [truncate |-> FALSE, missing_only |-> TRUE],
                                    r.status, r.updated)
    /\ UNCHANGED <<fsVars, modVars, nanTolerant>>

\* the caller takes the result (or the exception) of the call
Return ==
    /\ call.op # "none"
    /\ call' = NoCall
    /\ UNCHANGED <<fsVars, modVars, nanTolerant, db>>

----------------------------------------------------------------------------
(* Inputs *)

\* every record whose keys are a subset of DOMAIN dom and whose values come from dom
RecordsOver(dom) ==
    UNION { {f \in [K -> UNION {dom[k] : k \in K}] : \A k \in K : f[k] \in dom[k]} :
            K \in SUBSET (DOMAIN dom) }

KoiRecords ==
    RecordsOver([koi_period   |-> {None, IntV(0), IntV(10)},
                 koi_duration |-> {IntV(2)},
                 koi_depth    |-> {Str("abc"), IntV(100)}])

AppRecords ==
    RecordsOver([orbital_period |-> {None, IntV(10)},
                 transit_depth  |-> {IntV(100)},
                 stellar_mass   |-> {IntV(1)},
                 koi_kepmag     |-> {IntV(14)}])

ThresholdArgs == {NoThr, Thr(0), Thr(50)}

----------------------------------------------------------------------------
(* mlapp/training.py *)

Runs == {"A", "B"}

\* the dataset files a run can be pointed at: existence, columns, rows per class
\* (rows 1..n0 carry label 0, rows n0+1..n0+n1 label 1)
Dataset(file) ==
    IF file = "missing.csv" THEN
        [exists |-> FALSE, has_label |-> FALSE, absent_base |-> {}, n0 |-> 0, n1 |-> 0]
    ELSE IF file = "nolabel.csv" THEN
        [exists |-> TRUE, has_label |-> FALSE, absent_base |-> {}, n0 |-> 0, n1 |-> 0]
    ELSE IF file = "nobase.csv" THEN
        [exists |-> TRUE, has_label |-> TRUE, absent_base |-> {"koi_kepmag", "koi_slogg"},
         n0 |-> 5, n1 |-> 5]
    ELSE IF file = "noperiod.csv" THEN
        [exists |-> TRUE, has_label |-> TRUE, absent_base |-> {"koi_period"},
         n0 |-> 5, n1 |-> 5]
    ELSE IF file = "oneplanet.csv" THEN
        [exists |-> TRUE, has_label |-> TRUE, absent_base |-> {}, n0 |-> 9, n1 |-> 1]
    ELSE IF file = "fewplanets.csv" THEN
        [exists |-> TRUE, has_label |-> TRUE, absent_base |-> {}, n0 |-> 8, n1 |-> 2]
    ELSE IF file = "allplanets.csv" THEN
        [exists |-> TRUE, has_label |-> TRUE, absent_base |-> {}, n0 |-> 0, n1 |-> 7]
    ELSE IF file = "onerow.csv" THEN
        [exists |-> TRUE, has_label |-> TRUE, absent_base |-> {}, n0 |-> 0, n1 |-> 1]
    ELSE IF file = "norows.csv" THEN
        [exists |-> TRUE, has_label |-> TRUE, absent_base |-> {}, n0 |-> 0, n1 |-> 0]
    ELSE IF file = "koiB.csv" THEN
        [exists |-> TRUE, has_label |-> TRUE, absent_base |-> {}, n0 |-> 6, n1 |-> 4]
    ELSE
        [exists |-> TRUE, has_label |-> TRUE, absent_base |-> {}, n0 |-> 5, n1 |-> 5]

TrainFiles ==
    {"missing.csv", "nolabel.csv", "nobase.csv", "noperiod.csv", "oneplanet.csv", "fewplanets.csv",
     "allplanets.csv", "onerow.csv", "norows.csv", "koiA.csv", "koiB.csv"}

\* threshold_mode: a number (in percent), None, or a string given as its characters
StrMode(s) == [kind |-> "str", text |-> s, value |-> 0]
NumMode(v) == [kind |-> "num", text |-> <<>>, value |-> v]
NoneMode   == [kind |-> "none", text |-> <<>>, value |-> 0]

HIGH_RECALL      == <<"h", "i", "g", "h", "_", "r", "e", "c", "a", "l", "l">>
BALANCED         == <<"b", "a", "l", "a", "n", "c", "e", "d">>
HIGH_PRECISION   == <<"h", "i", "g", "h", "_", "p", "r", "e", "c", "i", "s", "i", "o", "n">>
TARGET_PRECISION == <<"t", "a", "r", "g", "e", "t", "_", "p", "r", "e", "c", "i", "s", "i", "o", "n">>
Bogus            == <<"b", "o", "g", "u", "s">>

ThresholdModes ==
    {StrMode(HIGH_RECALL), NumMode(45), StrMode(Bogus),
     StrMode(TARGET_PRECISION \o <<":", "0", ".", "9">>)}

\* the elements of a finite set of integers in increasing order
RECURSIVE SortedSeq(_)
SortedSeq(S) ==
    IF S = {} THEN <<>>
    ELSE LET m == CHOOSE x \in S : \A y \in S : x <= y
         IN  <<m>> \o SortedSeq(S \ {m})

\* ceil(a * n / b)
CeilFrac(a, n, b) == (a * n + b - 1) \div b

\* random_state of both train_test_split calls
Seed == 42

\* the label of a row of a dataset
LabelOfRow(ds, row) == IF row <= ds.n0 THEN 0 ELSE 1

RowsOfClass(ds, rows, k) == {row \in rows : LabelOfRow(ds, row) = k}

\* y.nunique() == 2
BothClasses(ds, rows) == RowsOfClass(ds, rows, 0) # {} /\ RowsOfClass(ds, rows, 1) # {}

\* the seeded permutation of a set of rows: a fixed rearrangement that depends on
\* nothing but the seed and the rows
Permutation(rows, seed) ==
    LET sorted == SortedSeq(rows)
        n      == Len(sorted)
    IN  [i \in 1..n |-> sorted[((i + seed - 1) % n) + 1]]

\* the first k entries of a sequence, as a set
Take(seq, k) == {seq[i] : i \in 1..k}

\* ShuffleSplit: n_test = ceil(test_size * n), n_train = n - n_test; an empty train
\* set is a ValueError
ShuffleSplit(rows, a, b) ==
    LET n      == Cardinality(rows)
        n_test == CeilFrac(a, n, b)
        test   == Take(Permutation(rows, Seed), n_test)
    IN  [raises |-> n - n_test = 0, train |-> rows \ test, test |-> test]

\* _approximate_mode for two classes: the share of class 0 in n_draws rows drawn from
\* c0 + c1; the odd row goes to the class with the larger remainder (class 0 on a tie,
\* which the seeded generator decides)
ApproximateMode(c0, c1, n_draws) ==
    LET floor0 == (n_draws * c0) \div (c0 + c1)
        floor1 == (n_draws * c1) \div (c0 + c1)
        rem0   == (n_draws * c0) % (c0 + c1)
        rem1   == (n_draws * c1) % (c0 + c1)
    IN  IF floor0 + floor1 < n_draws /\ rem0 >= rem1 THEN floor0 + 1 ELSE floor0

\* StratifiedShuffleSplit: a class with fewer than 2 rows, or a side with fewer rows
\* than classes, is a ValueError
StratifiedSplit(ds, rows, a, b) ==
    LET n       == Cardinality(rows)
        n_test  == CeilFrac(a, n, b)
        n_train == n - n_test
        rows0   == RowsOfClass(ds, rows, 0)
        rows1   == RowsOfClass(ds, rows, 1)
        train0  == ApproximateMode(Cardinality(rows0), Cardinality(rows1), n_train)
        raises  == \/ Cardinality(rows0) < 2 \/ Cardinality(rows1) < 2
                   \/ n_train < 2 \/ n_test < 2
        train   == IF raises THEN {}
                   ELSE Take(Permutation(rows0, Seed), train0)
                        \cup Take(Permutation(rows1, Seed), n_train - train0)
    IN  [raises |-> raises, train |-> train, test |-> rows \ train]

\* train_test_split(df, test_size=a/b, random_state=seed, stratify=...)
train_test_split(ds, rows, a, b, stratify) ==
    IF stratify THEN StratifiedSplit(ds, rows, a, b) ELSE ShuffleSplit(rows, a, b)

NoSplit == [status |-> "none", stratified |-> FALSE, train |-> {}, val |-> {}, test |-> {}]

\* lines 123-134 on a non-empty frame
SplitRows(ds, rows) ==
    LET first == train_test_split(ds, rows, 4, 10, BothClasses(ds, rows))
    IN  IF first.raises
        THEN [NoSplit EXCEPT !.status = "ValueError", !.stratified = BothClasses(ds, rows)]
        ELSE LET second == train_test_split(ds, first.test, 1, 2,
                                            BothClasses(ds, first.test))
             IN  IF second.raises
                 THEN [NoSplit EXCEPT !.status = "ValueError",
                                      !.stratified = BothClasses(ds, rows)]
                 ELSE [status |-> "ok", stratified |-> BothClasses(ds, rows),
                       train |-> first.train, val |-> second.train, test |-> second.test]

\* train_val_test_split_frame(df, label_col, seed=42) on a frame with the label column
train_val_test_split_frame(ds) ==
    IF ds.n0 + ds.n1 = 0 THEN [NoSplit EXCEPT !.status = "ok"]
    ELSE SplitRows(ds, 1..(ds.n0 + ds.n1))

\* the slip of checking the base columns against the columns that are there
_prepare_training_frame_nocheck(ds) ==
    [missing |-> <<>>,
     ordered |-> SelectSeq(BASE_FEATURES \o DERIVED_FEATURES,
                           LAMBDA c : c \in SeqToSet(BASE_FEATURES) \ ds.absent_base)]

\* _prepare_training_frame: the ordered feature list, or the missing base columns
_prepare_training_frame(ds) ==
    LET cols    == SeqToSet(BASE_FEATURES) \ ds.absent_base
        derived == (IF {"koi_period", "koi_duration", "koi_depth"} \subseteq cols
                    THEN {"duty_cycle", "depth_frac", "rprstar_est"} ELSE {})
                   \cup (IF "koi_period" \in cols THEN {"log_period"} ELSE {})
                   \cup (IF "koi_depth" \in cols THEN {"log_depth"} ELSE {})
        present == cols \cup derived
    IN  [missing |-> SelectSeq(BASE_FEATURES, LAMBDA c : c \notin cols),
         ordered |-> SelectSeq(BASE_FEATURES \o DERIVED_FEATURES, LAMBDA c : c \in present)]

\* str.strip() and str.lower()
Whitespace == {" ", "\t", "\n"}

UpperCase == <<"A", "B", "C", "D", "E", "F", "G", "H", "I", "J", "K", "L", "M",
               "N", "O", "P", "Q", "R", "S", "T", "U", "V", "W", "X", "Y", "Z">>
LowerCase == <<"a", "b", "c", "d", "e", "f", "g", "h", "i", "j", "k", "l", "m",
               "n", "o", "p", "q", "r", "s", "t", "u", "v", "w", "x", "y", "z">>

LowerChar(c) ==
    IF \E i \in DOMAIN UpperCase : UpperCase[i] = c
    THEN LowerCase[CHOOSE i \in DOMAIN UpperCase : UpperCase[i] = c]
    ELSE c

Lower(s) == [i \in DOMAIN s |-> LowerChar(s[i])]

Strip(s) ==
    LET keep == {i \in DOMAIN s : s[i] \notin Whitespace}
    IN  IF keep = {} THEN <<>>
        ELSE SubSeq(s, CHOOSE i \in keep : \A j \in keep : i <= j,
                       CHOOSE i \in keep : \A j \in keep : i >= j)

\* m.startswith(prefix)
StartsWith(s, prefix) ==
    Len(s) >= Len(prefix) /\ SubSeq(s, 1, Len(prefix)) = prefix

\* m.split(":", 1)
SplitColon(s) ==
    LET colons == {i \in DOMAIN s : s[i] = ":"}
    IN  IF colons = {} THEN <<s>>
        ELSE LET p == CHOOSE i \in colons : \A j \in colons : i <= j
             IN  <<SubSeq(s, 1, p - 1), SubSeq(s, p + 1, Len(s))>>

Digits == <<"0", "1", "2", "3", "4", "5", "6", "7", "8", "9">>

IsDigit(c) == \E i \in DOMAIN Digits : Digits[i] = c

DigitVal(c) == (CHOOSE i \in DOMAIN Digits : Digits[i] = c) - 1

RECURSIVE DigitsValue(_)
DigitsValue(s) ==
    IF s = <<>> THEN 0
    ELSE 10 * DigitsValue(SubSeq(s, 1, Len(s) - 1)) + DigitVal(s[Len(s)])

\* float(text) on a plain decimal numeral: the exact value num/den, or ValueError
ParseFloat(text) ==
    LET s    == Strip(text)
        dots == {i \in DOMAIN s : s[i] = "."}
        p    == IF dots = {} THEN Len(s) + 1 ELSE CHOOSE i \in dots : TRUE
        int  == SubSeq(s, 1, p - 1)
        frac == SubSeq(s, p + 1, Len(s))
    IN  IF /\ Cardinality(dots) <= 1
           /\ \A i \in DOMAIN s : s[i] = "." \/ IsDigit(s[i])
           /\ Len(int) + Len(frac) > 0
        THEN [ok |-> TRUE, num |-> DigitsValue(int) * Pow10(Len(frac)) + DigitsValue(frac),
              den |-> Pow10(Len(frac))]
        ELSE [ok |-> FALSE, num |-> 0, den |-> 1]

\* sklearn.metrics.precision_recall_curve on rows <<label, score>>: the thresholds are
\* the distinct scores in increasing order; releases before 1.1 drop the thresholds
\* below the highest one that still has full recall
TruePos(valid, t)  == Cardinality({i \in DOMAIN valid : valid[i][1] = 1 /\ valid[i][2] >= t})
FalsePos(valid, t) == Cardinality({i \in DOMAIN valid : valid[i][1] = 0 /\ valid[i][2] >= t})
Positives(valid)   == Cardinality({i \in DOMAIN valid : valid[i][1] = 1})

FullRecall(valid, t) == TruePos(valid, t) = Positives(valid)

CurveThresholdSet(valid, truncated) ==
    LET scores == {valid[i][2] : i \in DOMAIN valid}
    IN  IF truncated
        THEN {t \in scores : \A u \in scores : (FullRecall(valid, u) => t >= u)}
        ELSE scores

\* thr; prec[:-1] and rec[:-1] are the precision and recall at thr[i]
CurveThresholds(valid, truncated) == SortedSeq(CurveThresholdSet(valid, truncated))

\* precision tp / (tp + fp) >= num / den
PrecisionAtLeast(valid, t, num, den) ==
    TruePos(valid, t) * den >= num * (TruePos(valid, t) + FalsePos(valid, t))

\* precision at t is strictly below the precision at u
PrecisionLess(valid, t, u) ==
    TruePos(valid, t) * (TruePos(valid, u) + FalsePos(valid, u))
        < TruePos(valid, u) * (TruePos(valid, t) + FalsePos(valid, t))

\* ndarray.argmax(): the first index holding the maximum
ArgMaxPrecision(valid, thr) ==
    CHOOSE i \in DOMAIN thr :
        /\ \A j \in DOMAIN thr : ~PrecisionLess(valid, thr[i], thr[j])
        /\ \A j \in 1..(i - 1) : PrecisionLess(valid, thr[j], thr[i])

\* lines 176-181: thr[:-1] is one entry shorter than the mask and than prec[:-1], so
\* the boolean index raises IndexError, and so does the position of the last threshold
TargetPrecisionThreshold(valid, truncated, num, den) ==
    LET thr  == CurveThresholds(valid, truncated)
        mask == {i \in DOMAIN thr : PrecisionAtLeast(valid, thr[i], num, den)}
    IN  IF mask # {} THEN [status |-> "IndexError", thr |-> 0]
        ELSE IF ArgMaxPrecision(valid, thr) > Len(thr) - 1
             THEN [status |-> "IndexError", thr |-> 0]
             ELSE [status |-> "ok", thr |-> thr[ArgMaxPrecision(valid, thr)]]

\* lines 165-173: the target of a target_precision policy, 0.90 unless parts[1] parses
PrecisionTarget(m) ==
    LET parts == SplitColon(m)
    IN  IF Len(parts) = 2 /\ ParseFloat(parts[2]).ok
        THEN ParseFloat(parts[2])
        ELSE [ok |-> TRUE, num |-> 9, den |-> 10]

\* the slip of comparing the mode as given, without strip() and lower()
NormalizeMode_asgiven(text) == text

\* line 158: str(mode).strip().lower()
NormalizeMode(text) == Lower(Strip(text))

\* _threshold_from_mode(mode, y_true_valid, proba_valid), thresholds in percent
_threshold_from_mode(mode, valid, truncated) ==
    IF mode.kind = "num" THEN [status |-> "ok", thr |-> mode.value]
    ELSE IF mode.kind = "none" THEN [status |-> "ok", thr |-> 32]
    ELSE LET m == NormalizeMode(mode.text)
         IN  IF m = HIGH_RECALL THEN [status |-> "ok", thr |-> 32]
             ELSE IF m = BALANCED THEN [status |-> "ok", thr |-> 50]
             ELSE IF m = HIGH_PRECISION THEN [status |-> "ok", thr |-> 60]
             ELSE IF StartsWith(m, TARGET_PRECISION)
                  THEN TargetPrecisionThreshold(valid, truncated, PrecisionTarget(m).num,
                                                PrecisionTarget(m).den)
             ELSE [status |-> "ValueError", thr |-> 0]

IdleRun == [pc |-> "idle", file |-> "", activate |-> FALSE, mode |-> StrMode(HIGH_RECALL),
            split |-> NoSplit, features |-> <<>>, model |-> NoClf, thr |-> 0, ts |-> -1,
            error |-> "", detail |-> <<>>, yhat_val |-> <<>>, yhat_test |-> <<>>]

Fail(r, err) == run' = [run EXCEPT ![r].pc = "failed", ![r].error = err]
Goto(r, pc)  == run' = [run EXCEPT ![r].pc = pc]

\* retrain_from_csv(file, activate, threshold_mode): _ensure_dirs() creates directories only
StartRun(r, Files, Modes) ==
    /\ run[r].pc = "idle"
    /\ \E file \in Files, activate \in BOOLEAN, mode \in Modes :
         run' = [run EXCEPT ![r].pc = "load", ![r].file = file,
                            ![r].activate = activate, ![r].mode = mode]
    /\ UNCHANGED <<current, versions, clock, modVars, nanTolerant, db, call>>

\* the slip of reading the file without asking whether it exists
Load_noexists(r) ==
    /\ run[r].pc = "load"
    /\ IF ~Dataset(run[r].file).has_label THEN Fail(r, "ValueError: label_true")
       ELSE Goto(r, "split")
    /\ UNCHANGED <<current, versions, clock, modVars, nanTolerant, db, call>>

\* lines 239-251
Load(r) ==
    /\ run[r].pc = "load"
    /\ IF ~Dataset(run[r].file).exists THEN Fail(r, "FileNotFoundError")
       ELSE IF ~Dataset(run[r].file).has_label THEN Fail(r, "ValueError: label_true")
       ELSE Goto(r, "split")
    /\ UNCHANGED <<current, versions, clock, modVars, nanTolerant, db, call>>

\* line 254
Split(r) ==
    /\ run[r].pc = "split"
    /\ \E s \in {train_val_test_split_frame(Dataset(run[r].file))} :
         IF s.status # "ok"
         THEN run' = [run EXCEPT ![r].pc = "failed", ![r].error = "ValueError: split",
                                 ![r].split = s]
         ELSE run' = [run EXCEPT ![r].pc = "prepare", ![r].split = s]
    /\ UNCHANGED <<current, versions, clock, modVars, nanTolerant, db, call>>

\* lines 257-262
Prepare(r) ==
    /\ run[r].pc = "prepare"
    /\ LET p == _prepare_training_frame(Dataset(run[r].file))
       IN  IF p.missing # <<>>
           THEN run' = [run EXCEPT ![r].pc = "failed",
                                   ![r].error = "ValueError: missing columns",
                                   ![r].detail = p.missing]
           ELSE run' = [run EXCEPT ![r].pc = "fit", ![r].features = p.ordered]
    /\ UNCHANGED <<current, versions, clock, modVars, nanTolerant, db, call>>

\* lines 265-276: fit needs a row; predict_proba(X)[:, 1] needs a row to score and a
\* forest that saw both classes
FitError(ds, split) ==
    IF split.train = {} \/ split.val = {} \/ split.test = {} THEN "ValueError: no rows"
    ELSE IF ~BothClasses(ds, split.train) THEN "IndexError"
    ELSE "none"

Fit(r) ==
    /\ run[r].pc = "fit"
    /\ IF FitError(Dataset(run[r].file), run[r].split) # "none"
       THEN Fail(r, FitError(Dataset(run[r].file), run[r].split))
       ELSE run' = [run EXCEPT ![r].pc = "threshold", ![r].model = Clf(run[r].file)]
    /\ UNCHANGED <<current, versions, clock, modVars, nanTolerant, db, call>>

\* proba_val: the fitted forest's score of a validation row, in percent
ValidationScore(clf, row) == (ModelSeed(clf.trained_on) + 29 * row) % (ProbUnits + 1)

\* y_val and proba_val as rows <<label, score>>
ValidationRows(ds, clf, val) ==
    [i \in 1..Cardinality(val) |->
        <<LabelOfRow(ds, SortedSeq(val)[i]), ValidationScore(clf, SortedSeq(val)[i])>>]

\* line 279; which precision_recall_curve is installed decides the curve
SelectThreshold(r) ==
    /\ run[r].pc = "threshold"
    /\ \E truncated \in BOOLEAN :
         \E t \in {_threshold_from_mode(
                      run[r].mode,
                      ValidationRows(Dataset(run[r].file), run[r].model, run[r].split.val),
                      truncated)} :
             IF t.status # "ok" THEN Fail(r, t.status)
             ELSE run' = [run EXCEPT ![r].pc = "evaluate", ![r].thr = t.thr]
    /\ UNCHANGED <<current, versions, clock, modVars, nanTolerant, db, call>>

\* (proba >= thr).astype(int) over rows <<label, score>>
PredictedLabels(rows, thr) == [i \in DOMAIN rows |-> LabelOf(rows[i][2], thr)]

\* lines 281-285: the predicted labels the two metric sets are computed from
Evaluate(r) ==
    /\ run[r].pc = "evaluate"
    /\ \E ds \in {Dataset(run[r].file)} :
         run' = [run EXCEPT
                   ![r].pc = "persist_model",
                   ![r].yhat_val =
                       PredictedLabels(ValidationRows(ds, run[r].model, run[r].split.val),
                                       run[r].thr),
                   ![r].yhat_test =
                       PredictedLabels(ValidationRows(ds, run[r].model, run[r].split.test),
                                       run[r].thr)]
    /\ UNCHANGED <<current, versions, clock, modVars, nanTolerant, db, call>>

\* the slip of writing the default threshold to the document
RunConfig_default(r) ==
    Cfg(run[r].features, TRUE, DefaultThreshold, run[r].ts, run[r].model.trained_on)

\* lines 308-316: the TrainResult of a run that returned
TrainResult(r) ==
    [version_dir |-> run[r].ts, threshold |-> run[r].thr, features |-> run[r].features]

\* the configuration document written by _save_artifacts
RunConfig(r) ==
    Cfg(run[r].features, TRUE, run[r].thr, run[r].ts, run[r].model.trained_on)

\* lines 288-289 and _save_artifacts lines 204-207: mkdir(exist_ok=True), dump(model)
PersistModel(r) ==
    /\ run[r].pc = "persist_model"
    /\ \E io_ok \in BOOLEAN :
         IF io_ok
         THEN /\ versions' = [versions EXCEPT ![clock].clf = run[r].model]
              /\ run' = [run EXCEPT ![r].pc = "persist_config", ![r].ts = clock]
         ELSE /\ run' = [run EXCEPT ![r].pc = "failed", ![r].error = "OSError",
                                    ![r].ts = clock]
              /\ UNCHANGED versions
    /\ UNCHANGED <<current, clock, modVars, nanTolerant, db, call>>

\* the slip of activating whatever the activate flag says
AfterPersist_always(r) == "activate_model"

\* lines 305-306: if activate: _activate_version(version_dir)
AfterPersist(r) == IF run[r].activate THEN "activate_model" ELSE "done"

\* _save_artifacts lines 208-213: open(config_path, "w"), json.dump
PersistConfig(r) ==
    /\ run[r].pc = "persist_config"
    /\ \E io_ok \in BOOLEAN :
         IF io_ok
         THEN /\ versions' = [versions EXCEPT ![run[r].ts].cfg = RunConfig(r)]
              /\ Goto(r, AfterPersist(r))
         ELSE /\ Fail(r, "OSError")
              /\ UNCHANGED versions
    /\ UNCHANGED <<current, clock, modVars, nanTolerant, db, call>>

\* _activate_version, first iteration: copy2(version_dir/rf_koi.joblib, CURRENT)
ActivateModel(r) ==
    /\ run[r].pc = "activate_model"
    /\ \E io_ok \in BOOLEAN :
         IF io_ok
         THEN /\ current' = IF versions[run[r].ts].clf.exists
                            THEN [current EXCEPT !.clf = versions[run[r].ts].clf]
                            ELSE current
              /\ Goto(r, "activate_config")
         ELSE /\ Fail(r, "OSError")
              /\ UNCHANGED current
    /\ UNCHANGED <<versions, clock, modVars, nanTolerant, db, call>>

\* _activate_version, second iteration: copy2(version_dir/final_config.json, CURRENT)
ActivateConfig(r) ==
    /\ run[r].pc = "activate_config"
    /\ \E io_ok \in BOOLEAN :
         IF io_ok
         THEN /\ current' = IF versions[run[r].ts].cfg.exists
                            THEN [current EXCEPT !.cfg = versions[run[r].ts].cfg]
                            ELSE current
              /\ Goto(r, "done")
         ELSE /\ Fail(r, "OSError")
              /\ UNCHANGED current
    /\ UNCHANGED <<versions, clock, modVars, nanTolerant, db, call>>

\* datetime.utcnow() advances
Tick ==
    /\ clock < MaxClock
    /\ clock' = clock + 1
    /\ UNCHANGED <<current, versions, run, modVars, nanTolerant, db, call>>

----------------------------------------------------------------------------
(* app/management/commands/calibrate_threshold.py *)

\* probability_confirmed of the sampled Kepler candidates, in query order
CalibrationSamples == {<<>>, <<80, 20>>, <<10, 90, 40>>}

CalibrationTargets == {50, 90}

\* sorted(probs): the k-th smallest of a sequence of integers
KthInt(s, k) ==
    CHOOSE v \in SeqToSet(s) :
        /\ Cardinality({i \in DOMAIN s : s[i] < v}) < k
        /\ Cardinality({i \in DOMAIN s : s[i] <= v}) >= k

Max(a, b) == IF a > b THEN a ELSE b
Min(a, b) == IF a < b THEN a ELSE b

\* lines 52-54, target in percent
CalibratedThreshold(probs, target) ==
    LET n   == Len(probs)
        idx == Max(0, Min(n - 1, ((100 - target) * n) \div 100))
    IN  KthInt(probs, idx + 1)

\* _MODEL.artifacts_dir / 'final_config.json': the active configuration
ActiveConfig == current.cfg

\* json.loads(cfg_path.read_text()), {} when the file cannot be read or parsed
ReadConfig(file) ==
    IF file.exists /\ ~file.corrupt THEN file ELSE [NoCfg EXCEPT !.exists = TRUE]

\* the slip of writing a fresh document that holds the threshold alone
WriteThreshold_fresh(cfg, thr) ==
    [NoCfg EXCEPT !.exists = TRUE, !.has_threshold = TRUE, !.threshold = thr]

\* lines 62-63: cfg['threshold'] = new_thr, then the document is written back
WriteThreshold(cfg, thr) == [cfg EXCEPT !.has_threshold = TRUE, !.threshold = thr]

\* Command.handle: lines 47-49 return without writing when there are no samples
Calibrate ==
    /\ call.op = "none"
    /\ \E probs \in CalibrationSamples, target \in CalibrationTargets :
         /\ call' = [op |-> "calibrate_threshold", input |-> probs, payload |-> <<>>,
                     threshold |-> Thr(target), X |-> <<>>, invoked |-> FALSE,
                     status |-> IF probs = <<>> THEN "no samples" ELSE "calibrated",
                     out |-> IF probs = <<>> THEN <<>>
                             ELSE <<CalibratedThreshold(probs, target)>>,
                     kind |-> "none", after |-> <<>>]
         /\ IF probs = <<>> THEN UNCHANGED current
            ELSE current' = [current EXCEPT
                               !.cfg = WriteThreshold(ReadConfig(ActiveConfig),
                                                      CalibratedThreshold(probs, target))]
    /\ UNCHANGED <<versions, clock, run, modVars, nanTolerant, db>>

----------------------------------------------------------------------------
(* _threshold_from_mode called on its own *)

MaxValid == 3

ValidationScores == {20, 80}

\* every validation set of 1..MaxValid rows <<label, score>>
ValidationSets == SeqsUpTo({0, 1} \X ValidationScores, MaxValid) \ {<<>>}

Pad(text) == <<" ">> \o text \o <<"\n">>

HighRecallMixed == <<"H", "i", "g", "h", "_", "R", "E", "C", "A", "L", "L">>

ModeInputs ==
    {NumMode(0), NumMode(45), NoneMode,
     StrMode(HIGH_RECALL), StrMode(BALANCED), StrMode(HIGH_PRECISION),
     StrMode(Pad(HighRecallMixed)), StrMode(Pad(BALANCED)),
     StrMode(Bogus), StrMode(<<>>), StrMode(<<"h", "i", "g", "h">>),
     StrMode(TARGET_PRECISION),
     StrMode(TARGET_PRECISION \o <<":", "0", ".", "9">>),
     StrMode(TARGET_PRECISION \o <<":", "0", ".", "6">>),
     StrMode(Pad(TARGET_PRECISION \o <<":", "1">>)),
     StrMode(TARGET_PRECISION \o <<":", "a", "b", "c">>)}

ThresholdFromMode ==
    /\ call.op = "none"
    /\ \E mode \in ModeInputs, valid \in ValidationSets, truncated \in BOOLEAN :
         \E t \in {_threshold_from_mode(mode, valid, truncated)} :
             call' = [op |-> "_threshold_from_mode",
                      input |-> <<[mode |-> mode, valid |-> valid, truncated |-> truncated]>>,
                      payload |-> <<>>, threshold |-> NoThr, X |-> <<>>, invoked |-> FALSE,
                      status |-> t.status,
                      out |-> IF t.status = "ok" THEN <<t.thr>> ELSE <<>>,
                      kind |-> "none", after |-> <<>>]
    /\ UNCHANGED <<fsVars, modVars, nanTolerant, db>>

----------------------------------------------------------------------------
(* Specifications *)

ShippedCfg == Cfg(BASE_FEATURES \o DERIVED_FEATURES, TRUE, 32, -1, "shipped")

\* everything but the files of the current directory
InitRest ==
    /\ versions = [ts \in 0..MaxClock |-> EmptyDir]
    /\ clock = 0
    /\ run = [r \in Runs |-> IdleRun]
    /\ nanTolerant \in BOOLEAN
    /\ modpc = "start"
    /\ defined = {}
    /\ RF = NoClf
    /\ FEATURES = <<>>
    /\ THRESHOLD = 0
    /\ FEATURE_MEDIANS = EmptyMedians
    /\ call = NoCall

Init ==
    /\ current \in {[clf |-> Clf("shipped"), cfg |-> cfg, csv |-> csv] :
                      cfg \in {ShippedCfg, [ShippedCfg EXCEPT !.has_threshold = FALSE]},
                      csv \in {NoCsv, KeplerClean}}
    /\ InitRest
    /\ db = <<>>

\* a current directory whose files may be absent or unreadable
InitAnyArtifacts ==
    /\ current \in {[clf |-> clf, cfg |-> cfg, csv |-> csv] :
                      clf \in {NoClf, CorruptClf, Clf("shipped")},
                      cfg \in {NoCfg, CorruptCfg, ShippedCfg,
                               [ShippedCfg EXCEPT !.has_threshold = FALSE]},
                      csv \in {NoCsv, KeplerClean}}
    /\ InitRest
    /\ db = <<>>

Import == ImportArtifacts \/ ImportMedians \/ ImportFunctions

Training(Rs, Files, Modes) ==
    \E r \in Rs :
        \/ StartRun(r, Files, Modes) \/ Load(r) \/ Split(r) \/ Prepare(r) \/ Fit(r)
        \/ SelectThreshold(r) \/ Evaluate(r) \/ PersistModel(r) \/ PersistConfig(r)
        \/ ActivateModel(r) \/ ActivateConfig(r)

\* the inputs of the smaller specifications
OneKoiRecord == {[koi_period |-> IntV(10)]}

OneAppRecord == {[orbital_period |-> IntV(10)]}

NoThresholdArg == {NoThr}

HalfThresholdArg == {Thr(50)}

ListOnly == {"list"}

OneRun == {"A"}

StoreFiles == {"koiA.csv", "koiB.csv"}

StoreModes == {StrMode(HIGH_RECALL)}

SomeFiles == {"nobase.csv", "koiA.csv"}

SomeModes == {StrMode(HIGH_RECALL), StrMode(Bogus)}

\* inference over the full input sets, on the artifacts the repository ships
NextInfer ==
    \/ Import
    \/ PredictOne(KoiRecords, ThresholdArgs)
    \/ PredictBatch(KoiRecords, ThresholdArgs, ListOnly)
    \/ PredictWithKeplerModel(AppRecords)
    \/ Return

SpecInfer == Init /\ [][NextInfer]_vars

\* one training run over every dataset file and threshold mode
NextRun ==
    \/ Training(OneRun, TrainFiles, ThresholdModes)
    \/ Tick

SpecRun == Init /\ [][NextRun]_vars

\* _threshold_from_mode over every mode and validation set
NextThreshold ==
    \/ ThresholdFromMode
    \/ Return

SpecThreshold == Init /\ [][NextThreshold]_vars

\* the artifact store under two training runs on complete datasets
NextStore ==
    \/ Training(Runs, StoreFiles, StoreModes)
    \/ Tick

SpecStore == Init /\ [][NextStore]_vars

\* the import of the inference module, and calls into it, on any current directory
NextLoad ==
    \/ Import
    \/ PredictOne(OneKoiRecord, ThresholdArgs)
    \/ PredictBatch(OneKoiRecord, NoThresholdArg, ListOnly)
    \/ PredictWithKeplerModel(OneAppRecord)
    \/ Return

SpecLoad == InitAnyArtifacts /\ [][NextLoad]_vars

\* the rows of a caller's DataFrame: every row has every column
FrameRecords ==
    {[koi_period |-> p, koi_duration |-> IntV(2), koi_depth |-> d] :
        p \in {IntV(0), IntV(10)}, d \in {Str("abc"), IntV(100)}}

ListOrFrame == {"list", "frame"}

\* records with a column the classifier was not fitted on
NamedRecords ==
    {[kepoi_name |-> Str("K00001.01"), koi_period |-> IntV(10)],
     [koi_score |-> IntV(1), koi_depth |-> IntV(100)]}

\* records that give every base feature; the transit depth of one is unparsable
FullRecord(period, depth) ==
    [koi_period |-> period, koi_duration |-> IntV(2), koi_depth |-> depth,
     koi_steff |-> IntV(5000), koi_kepmag |-> IntV(14), koi_prad |-> IntV(2),
     koi_slogg |-> IntV(4), koi_srad |-> IntV(1), koi_teq |-> IntV(300),
     koi_model_snr |-> IntV(20), koi_impact |-> Num(1, 2)]

FullRecords ==
    {FullRecord(IntV(10), IntV(100)), FullRecord(IntV(100), Str("abc"))}

\* records whose transit depth is zero, negative or positive
DepthRecords ==
    RecordsOver([koi_period   |-> {IntV(10)},
                 koi_duration |-> {IntV(2)},
                 koi_depth    |-> {IntV(0), IntV(-5), IntV(100)}])

\* inference calls as their caller sees them: records, lists and DataFrames
NextCaller ==
    \/ Import
    \/ PredictOne(KoiRecords, ThresholdArgs)
    \/ PredictBatch(FrameRecords, NoThresholdArg, ListOrFrame)
    \/ PredictBatch(NamedRecords, NoThresholdArg, ListOnly)
    \/ PredictBatch(FullRecords, NoThresholdArg, ListOnly)
    \/ PredictOne(DepthRecords, NoThresholdArg)
    \/ Return

SpecCaller == Init /\ [][NextCaller]_vars

\* candidate rows of the database
Candidates ==
    {Candidate(1, [kepoi_name |-> Str("K00001.01"), koi_period |-> IntV(10),
                   koi_depth |-> IntV(100)], EmptyObject),
     Candidate(2, EmptyObject, [orbital_period |-> IntV(100)]),
     Candidate(3, [kepoi_name |-> Str("K00003.01")], [orbital_period |-> None]),
     Candidate(4, [koi_period |-> IntV(1)],
               [orbital_period |-> IntV(7), transit_duration |-> IntV(3)]),
     Candidate(5, [koi_period |-> IntV(2), koi_prad |-> IntV(3)], EmptyObject)}

\* the batch adapter over the candidates of a query
NextAdapter ==
    \/ Import
    \/ BatchProbabilityFromCandidates(Candidates)
    \/ Return

SpecAdapter == Init /\ [][NextAdapter]_vars

\* tables the commands can find: empty, sample rows that were never scored (a Kepler
\* and a TESS one), and a Kepler row scored by an earlier classifier
SampleData(name, period) ==
    [name |-> Str(name), koi_id |-> None,
     attrs |-> [a \in DOMAIN FieldSources |->
                  IF a = "orbital_period" THEN IntV(period) ELSE IntV(1)],
     additional_data |-> EmptyObject, ml_prediction |-> None, ml_confidence |-> None]

SampleTable ==
    <<CandidateRow(1, "Kepler", SampleData("Kepler-100a", 10)),
      CandidateRow(2, "TESS", SampleData("TESS-200b", 100))>>

ScoredTable ==
    <<CandidateRow(1, "Kepler",
                   [SampleData("Kepler-100a", 10) EXCEPT
                       !.ml_prediction = Str("CANDIDATE"), !.ml_confidence = IntV(50)])>>

InitialTables == {<<>>, SampleTable, ScoredTable}

InitSync ==
    /\ current \in {[clf |-> Clf("shipped"), cfg |-> ShippedCfg, csv |-> csv] :
                      csv \in {NoCsv, KeplerClean}}
    /\ InitRest
    /\ db \in InitialTables

Limits == {0, 1}

NextSync ==
    \/ Import
    \/ ImportKeplerClean(BOOLEAN, Limits)
    \/ BackfillKeplerPredictions(BOOLEAN, Limits)
    \/ SyncKeplerData
    \/ Return
SpecSync == InitSync /\ [][NextSync]_vars

\* calibration runs on any current directory
NextCalibrate ==
    \/ Calibrate
    \/ Return

SpecCalibrate == InitAnyArtifacts /\ [][NextCalibrate]_vars

\* the whole program: inference, one training run, the clock and calibration
Next ==
    \/ Import
    \/ PredictOne(OneKoiRecord, NoThresholdArg)
    \/ PredictBatch(OneKoiRecord, HalfThresholdArg, ListOnly)
    \/ PredictWithKeplerModel(OneAppRecord)
    \/ Return
    \/ Training(OneRun, SomeFiles, SomeModes)
    \/ Tick
    \/ Calibrate

Spec == Init /\ [][Next]_vars

----------------------------------------------------------------------------
(* Properties *)

\* the threshold of the configuration file the module was loaded from
ConfigThreshold ==
    IF current.cfg.has_threshold THEN current.cfg.threshold ELSE DefaultThreshold

\* C1: a predict_one call that returns gives a probability in [0,1], a label in {0,1}
\* and the threshold it used; the threshold is the override whenever one is given
\* (0.0 included) and the configuration's threshold otherwise; the label is 1 exactly
\* when probability >= threshold.
C1_PredictOneContract ==
    (call.op = "predict_one" /\ call.status = "ok") =>
        LET o == call.out[1]
        IN  /\ o.probability \in 0..ProbUnits
            /\ o.label \in {0, 1}
            /\ o.threshold = (IF call.threshold.given THEN call.threshold.value
                              ELSE ConfigThreshold)
            /\ (o.label = 1 <=> o.probability >= o.threshold)

\* a returned predict_one call with the override 0.0
C1_Witness ==
    /\ call.op = "predict_one"
    /\ call.status = "ok"
    /\ call.threshold = Thr(0)
    /\ call.out[1].threshold = 0
    /\ call.out[1].label = 1

\* C2: the i-th result of predict_batch (prepared feature values, probability, label)
\* equals the result of predict_one on record i alone with the same threshold.
C2_BatchEqualsSingle ==
    (call.op = "predict_batch" /\ call.status = "ok") =>
        \A i \in DOMAIN call.payload :
            \A one \in {predict_one(call.payload[i], call.threshold)} :
                /\ one.status = "ok"
                /\ call.out[i].x = one.X[1]
                /\ call.out[i].probability = one.out[1].probability
                /\ call.out[i].label = one.out[1].label

\* C3: when a feature value is still missing after the reference-median and the
\* batch-median fill, the call ends in ImputationUnresolved and the classifier is
\* not invoked on the matrix.
C3_ImputationUnresolved ==
    (call.op \in {"predict_one", "predict_batch"} /\ HasNaN(call.X)) =>
        (call.status = "ImputationUnresolved" /\ ~call.invoked)

\* the coerced-and-derived reference dataset of the current directory
ReferenceFrame == DerivedFrame(current.csv.rows)

\* C4: when kepler_clean.csv is readable in the current directory, then after the import
\* of the inference module FEATURE_MEDIANS holds the median of every configured feature
\* that is a column of the coerced-and-derived reference dataset.
C4_MediansLoaded ==
    (modpc = "ready" /\ current.csv.exists) =>
        \A ref \in {ReferenceFrame} :
            \A c \in SeqToSet(FEATURES) \cap ref.cols :
                /\ c \in DOMAIN FEATURE_MEDIANS
                /\ FEATURE_MEDIANS[c] = Median(Column(ReplaceInf(ref.rows), c))

\* C5: predict_with_kepler_model hands predict_one every caller field, under the
\* classifier's column name when the field is in APP_TO_KOI and under its own name
\* with its own value otherwise.
C5_PassThrough ==
    (call.op = "predict_with_kepler_model") =>
        \A k \in DOMAIN call.input[1] :
            LET name == IF k \in DOMAIN APP_TO_KOI THEN APP_TO_KOI[k] ELSE k
            IN  /\ name \in DOMAIN call.payload[1]
                /\ call.payload[1][name] = call.input[1][k]

\* C6: predict_with_kepler_model returns CONFIRMED when the label is 1 and
\* FALSE_POSITIVE otherwise, a confidence in [0,1], probability_candidate = 0.0 and
\* probability_confirmed + probability_false_positive = 1.
C6_AdapterOutput ==
    (call.op = "predict_with_kepler_model" /\ call.status = "ok") =>
        LET o == call.out[1]
        IN  /\ o.prediction = (IF o.label = 1 THEN "CONFIRMED" ELSE "FALSE_POSITIVE")
            /\ o.prediction # "CANDIDATE"
            /\ o.confidence \in 0..ProbUnits
            /\ o.details.probability_candidate = 0
            /\ o.details.probability_confirmed + o.details.probability_false_positive
                 = ProbUnits

\* a returned adapter call on a non-empty input with a false-positive verdict
C6_Witness ==
    /\ call.op = "predict_with_kepler_model"
    /\ call.status = "ok"
    /\ DOMAIN call.input[1] # {}
    /\ call.out[1].prediction = "FALSE_POSITIVE"
    /\ call.out[1].details.probability_confirmed > 0

\* C7: when a stage of a training run fails, the run ends with the error and the current
\* directory holds exactly the classifier and configuration it held before the run.
C7_FailedRunLeavesCurrent ==
    \A r \in Runs :
        run[r].pc = "failed" =>
            /\ current.clf = Clf("shipped")
            /\ current.cfg \in {ShippedCfg, [ShippedCfg EXCEPT !.has_threshold = FALSE]}

\* C8: once a file of a version directory has been written, no later step modifies or
\* replaces it.
C8_VersionsImmutable ==
    [][\A ts \in DOMAIN versions :
          /\ versions[ts].clf.exists => versions'[ts].clf = versions[ts].clf
          /\ versions[ts].cfg.exists => versions'[ts].cfg = versions[ts].cfg]_vars

\* run r performs a step of _activate_version with activate=true
ActivateStep(r, from, to) ==
    run[r].activate /\ run[r].pc = from /\ run'[r].pc = to

\* C9 as stated: the files of the current directory change only through the Activate
\* step of a training run.
C9_OnlyActivate ==
    [][current' # current =>
          \E r \in Runs : \/ ActivateStep(r, "activate_model", "activate_config")
                          \/ ActivateStep(r, "activate_config", "done")]_vars

\* C9 amended: current/rf_koi.joblib changes only through the Activate step of a run
\* with activate=true; current/final_config.json changes only through that step or
\* through calibration, which rewrites its threshold field alone.
C9_ActivateOrCalibrate ==
    [][/\ current'.clf # current.clf =>
            \E r \in Runs : ActivateStep(r, "activate_model", "activate_config")
       /\ current'.cfg # current.cfg =>
            \/ \E r \in Runs : ActivateStep(r, "activate_config", "done")
            \/ /\ run' = run
               /\ current'.cfg = [current.cfg EXCEPT !.has_threshold = TRUE,
                                                     !.threshold = current'.cfg.threshold]
       /\ current'.csv = current.csv]_vars

\* a run with activate=false has finished, an inference call has returned and a
\* calibration has rewritten the threshold, with the shipped classifier still current
C9_Witness ==
    /\ \E r \in Runs : run[r].pc = "done" /\ ~run[r].activate
    /\ call.status = "ok"
    /\ current.cfg.threshold # ShippedCfg.threshold
    /\ current.clf = Clf("shipped")

\* C10: once two runs with activate=true that wrote different version directories have
\* both finished, the current directory holds the classifier and the configuration
\* of one and the same run.
C10_ActivationAtomic ==
    (/\ \A r \in Runs : run[r].pc = "done" /\ run[r].activate
     /\ run["A"].ts # run["B"].ts) =>
        \E r \in Runs : current.clf = run[r].model /\ current.cfg = RunConfig(r)

----------------------------------------------------------------------------
(* Threshold policies *)

\* a _threshold_from_mode call with a target_precision policy
TargetPrecisionCall ==
    /\ call.op = "_threshold_from_mode"
    /\ call.input[1].mode.kind = "str"
    /\ StartsWith(NormalizeMode(call.input[1].mode.text), TARGET_PRECISION)

\* the thresholds of the call's validation curve whose precision meets the call's target
MeetingThresholds ==
    LET in     == call.input[1]
        target == PrecisionTarget(NormalizeMode(in.mode.text))
    IN  {t \in CurveThresholdSet(in.valid, in.truncated) :
            PrecisionAtLeast(in.valid, t, target.num, target.den)}

\* C11: for target_precision[:X] (X = 0.90 by default), when some threshold of the
\* validation precision-recall curve has precision >= X, _threshold_from_mode returns the
\* lowest threshold of the curve with precision >= X, whose recall is the highest among
\* the thresholds that meet the target.
C11_TargetPrecisionMet ==
    (TargetPrecisionCall /\ MeetingThresholds # {}) =>
        /\ call.status = "ok"
        /\ call.out[1] \in MeetingThresholds
        /\ \A u \in MeetingThresholds :
              /\ call.out[1] <= u
              /\ TruePos(call.input[1].valid, call.out[1]) >= TruePos(call.input[1].valid, u)

\* C12: for target_precision:X on a validation set where no threshold of the curve
\* reaches precision X, _threshold_from_mode does not raise and returns a threshold of
\* the curve at which the validation precision is maximal.
C12_TargetPrecisionFallback ==
    (TargetPrecisionCall /\ MeetingThresholds = {}) =>
        /\ call.status = "ok"
        /\ call.out[1] \in CurveThresholdSet(call.input[1].valid, call.input[1].truncated)
        /\ \A u \in CurveThresholdSet(call.input[1].valid, call.input[1].truncated) :
              ~PrecisionLess(call.input[1].valid, call.out[1], u)

\* text is name up to the case of its letters
SameLetters(text, name) ==
    /\ Len(text) = Len(name)
    /\ \A i \in DOMAIN name :
          \/ text[i] = name[i]
          \/ \E j \in DOMAIN LowerCase : LowerCase[j] = name[i] /\ UpperCase[j] = text[i]

\* text is name up to case, between any amount of whitespace
Names(text, name) ==
    \E from \in 1..(Len(text) + 1), to \in 0..Len(text) :
        /\ to - from + 1 = Len(name)
        /\ SameLetters(SubSeq(text, from, to), name)
        /\ \A i \in DOMAIN text : (i < from \/ i > to) => text[i] \in Whitespace

\* text begins, after leading whitespace, with name up to case
BeginsWithName(text, name) ==
    \E from \in 1..(Len(text) + 1) :
        /\ from + Len(name) - 1 <= Len(text)
        /\ SameLetters(SubSeq(text, from, from + Len(name) - 1), name)
        /\ \A i \in 1..(from - 1) : text[i] \in Whitespace

\* C13: _threshold_from_mode returns the given number for a numeric mode, 0.32 for
\* high_recall, 0.50 for balanced and 0.60 for high_precision, whatever the case of the
\* letters, the surrounding whitespace and the validation data; every other string that
\* does not begin with target_precision raises the invalid-mode error and returns nothing.
C13_FixedPolicies ==
    (call.op = "_threshold_from_mode") =>
        LET mode == call.input[1].mode
        IN  /\ mode.kind = "num" => call.status = "ok" /\ call.out = <<mode.value>>
            /\ (mode.kind = "str" /\ Names(mode.text, HIGH_RECALL)) =>
                    call.status = "ok" /\ call.out = <<32>>
            /\ (mode.kind = "str" /\ Names(mode.text, BALANCED)) =>
                    call.status = "ok" /\ call.out = <<50>>
            /\ (mode.kind = "str" /\ Names(mode.text, HIGH_PRECISION)) =>
                    call.status = "ok" /\ call.out = <<60>>
            /\ (/\ mode.kind = "str"
                /\ ~Names(mode.text, HIGH_RECALL)
                /\ ~Names(mode.text, BALANCED)
                /\ ~Names(mode.text, HIGH_PRECISION)
                /\ ~BeginsWithName(mode.text, TARGET_PRECISION)) =>
                    call.status = "ValueError" /\ call.out = <<>>

\* high_recall given in mixed case between whitespace has returned 0.32
C13_Witness ==
    /\ call.op = "_threshold_from_mode"
    /\ call.input[1].mode = StrMode(Pad(HighRecallMixed))
    /\ call.status = "ok"
    /\ call.out = <<32>>

----------------------------------------------------------------------------
(* Training stages *)

\* run r was started on a dataset
Started(r) == run[r].pc # "idle"

RowCount(r) == Dataset(run[r].file).n0 + Dataset(run[r].file).n1

\* k is the share num/den of n, rounded to a whole row
ShareOf(k, num, den, n) == den * k > num * n - den /\ den * k < num * n + den

\* C14: train_val_test_split_frame on a non-empty dataset of N rows returns three
\* pairwise disjoint row sets whose union is the dataset, of 60%, 20% and 20% of N rows,
\* and two calls on the same dataset return the same partition.
C14_SplitPartition ==
    \A r \in Runs :
        (run[r].split.status # "none" /\ RowCount(r) > 0) =>
            /\ run[r].split.status = "ok"
            /\ run[r].split.train \cup run[r].split.val \cup run[r].split.test
                  = 1..RowCount(r)
            /\ run[r].split.train \cap run[r].split.val = {}
            /\ run[r].split.train \cap run[r].split.test = {}
            /\ run[r].split.val \cap run[r].split.test = {}
            /\ ShareOf(Cardinality(run[r].split.train), 3, 5, RowCount(r))
            /\ ShareOf(Cardinality(run[r].split.val), 1, 5, RowCount(r))
            /\ ShareOf(Cardinality(run[r].split.test), 1, 5, RowCount(r))
            /\ \A q \in Runs :
                  (run[q].split.status # "none" /\ run[q].file = run[r].file) =>
                      run[q].split = run[r].split

\* C15: the Split stage always returns the three splits; it stratifies only when every
\* split then holds both classes, and splits without stratification otherwise.
C15_SplitNeverFails ==
    \A r \in Runs :
        run[r].split.status # "none" =>
            /\ run[r].split.status = "ok"
            /\ run[r].split.stratified =>
                  /\ BothClasses(Dataset(run[r].file), run[r].split.train)
                  /\ BothClasses(Dataset(run[r].file), run[r].split.val)
                  /\ BothClasses(Dataset(run[r].file), run[r].split.test)

\* no training run has written a version directory
NoVersionWritten == \A ts \in DOMAIN versions : versions[ts] = EmptyDir

\* the current directory holds what the repository ships
CurrentAsShipped ==
    /\ current.clf = Clf("shipped")
    /\ current.cfg \in {ShippedCfg, [ShippedCfg EXCEPT !.has_threshold = FALSE]}

\* C16: when base features are absent from the training dataset, the run fitted no
\* classifier and wrote no version directory, and once it is through Prepare it has
\* failed with the missing-columns error that lists exactly the absent base features;
\* when all eleven are present the run never ends in that error.
C16_MissingRequiredColumns ==
    \A r \in Runs :
        Started(r) =>
            IF Dataset(run[r].file).absent_base # {}
            THEN /\ run[r].pc \in {"load", "split", "prepare", "failed"}
                 /\ run[r].model = NoClf
                 /\ NoVersionWritten
                 /\ (run[r].pc = "failed" /\ run[r].split.status = "ok") =>
                        /\ run[r].error = "ValueError: missing columns"
                        /\ SeqToSet(run[r].detail) = Dataset(run[r].file).absent_base
                        /\ Len(run[r].detail) = Cardinality(Dataset(run[r].file).absent_base)
            ELSE run[r].error # "ValueError: missing columns"

\* a run on a dataset without koi_period has failed in Prepare naming that column
C16_Witness ==
    \E r \in Runs :
        /\ run[r].pc = "failed"
        /\ run[r].error = "ValueError: missing columns"
        /\ run[r].detail = <<"koi_period">>

\* C17: a run on a file that does not exist fails with the file-not-found error, a run
\* on a dataset without the label column with the label-column error; either failure
\* comes before Split, with no classifier fitted and nothing written to the versions
\* or the current directory.
C17_LoadErrors ==
    \A r \in Runs :
        (Started(r) /\ ~(Dataset(run[r].file).exists /\ Dataset(run[r].file).has_label)) =>
            /\ run[r].pc \in {"load", "failed"}
            /\ run[r].pc = "failed" =>
                  run[r].error = (IF ~Dataset(run[r].file).exists THEN "FileNotFoundError"
                                  ELSE "ValueError: label_true")
            /\ run[r].split = NoSplit
            /\ run[r].model = NoClf
            /\ NoVersionWritten
            /\ CurrentAsShipped

\* a run on a dataset without the label column has failed in Load
C17_Witness ==
    \E r \in Runs :
        /\ run[r].pc = "failed"
        /\ run[r].error = "ValueError: label_true"
        /\ Dataset(run[r].file).exists

----------------------------------------------------------------------------
(* Calibration, the zero-period edge case and the module load *)

\* the fields of final_config.json other than the threshold
OtherFields(cfg) == <<cfg.features, cfg.created_utc, cfg.metrics_of>>

C19_ZeroPeriodImputed ==
    (call.op \in {"predict_one", "predict_batch"}) =>
        \A i \in DOMAIN call.payload :
            (/\ "koi_period" \in DOMAIN call.payload[i]
             /\ call.payload[i].koi_period = IntV(0)) =>
                /\ call.invoked
                /\ IsNum(call.X[i].duty_cycle)

\* some artifact file of the current directory is absent, or unreadable
SomeMissing == ~current.clf.exists \/ ~current.cfg.exists
SomeCorrupt == current.clf.corrupt \/ current.cfg.corrupt

PredictOps == {"predict_one", "predict_batch", "predict_with_kepler_model"}

\* C20: the load of the inference module fails with the file-not-found error when the
\* classifier or the configuration file is absent and with a deserialization error when
\* one of them cannot be read; after a failed load none of the module's functions is
\* defined, and only a fully loaded module answers predictions.
C20_LoadFailsWhole ==
    [][/\ (modpc = "start" /\ modpc' # "start") =>
            /\ (SomeMissing \/ SomeCorrupt) =>
                  /\ modpc' \in {"FileNotFoundError", "DeserializationError"}
                  /\ defined' = {}
            /\ (SomeMissing /\ ~SomeCorrupt) => modpc' = "FileNotFoundError"
            /\ (SomeCorrupt /\ ~SomeMissing) => modpc' = "DeserializationError"
            /\ ~(SomeMissing \/ SomeCorrupt) => modpc' = "artifacts"
       /\ modpc \in {"FileNotFoundError", "DeserializationError"} =>
            /\ modpc' = modpc
            /\ defined' = {}
       /\ call'.op \in PredictOps =>
            /\ modpc' = "ready"
            /\ RF.exists /\ ~RF.corrupt
            /\ FEATURES # <<>>]_vars

\* the load failed on a missing configuration after the classifier was read
C20_Witness ==
    /\ modpc = "FileNotFoundError"
    /\ RF = Clf("shipped")
    /\ ~current.cfg.exists
    /\ defined = {}

\* C21: a predict_one or predict_batch call leaves RF, FEATURES, THRESHOLD and
\* FEATURE_MEDIANS as they were and leaves the caller's record, list or DataFrame as it
\* was; predict_one called again on the same input, in the state the first call left,
\* ends the same way with the same probability, label and threshold.
C21_CallsArePure ==
    [][(call.op = "none" /\ call'.op \in {"predict_one", "predict_batch"}) =>
          /\ RF' = RF
          /\ FEATURES' = FEATURES
          /\ THRESHOLD' = THRESHOLD
          /\ FEATURE_MEDIANS' = FEATURE_MEDIANS
          /\ call'.after = call'.input
          /\ call'.op = "predict_one" =>
                \E rec \in {call'.after[1]}, t \in {call'.threshold} :
                    \A again \in {(predict_one(rec, t))'} :
                        /\ again.status = call'.status
                        /\ again.out = call'.out]_vars

\* a returned predict_one call whose record holds a string and whose override differs
\* from the module's threshold
C21_Witness ==
    /\ call.op = "predict_one"
    /\ call.status = "ok"
    /\ call.threshold.given
    /\ call.threshold.value # THRESHOLD
    /\ \E k \in DOMAIN call.input[1] : Kind(call.input[1][k]) = "str"
    /\ call.after = call.input

\* C22: a predict_batch call that returns gives one row per input record, in input
\* order, and row i carries the prepared feature values of record i, its probability,
\* its label and the threshold the call used.
C22_BatchRows ==
    (call.op = "predict_batch" /\ call.status = "ok") =>
        /\ Len(call.out) = Len(call.input)
        /\ \A i \in DOMAIN call.input :
             /\ call.out[i].x = call.X[i]
             /\ call.out[i].probability = Proba(RF, call.X[i], FEATURES)
             /\ call.out[i].label = LabelOf(call.out[i].probability,
                                            UsedThreshold(call.threshold))
             /\ "threshold" \in DOMAIN call.out[i]
             /\ call.out[i].threshold = UsedThreshold(call.threshold)

\* the columns of the frame built from the records of the call
InputColumns == UNION {DOMAIN call.payload[i] : i \in DOMAIN call.payload}

\* C23: _derive adds each derived column exactly when the base columns of its formula
\* are columns of the input: duty_cycle with koi_period and koi_duration, depth_frac and
\* rprstar_est with koi_depth, log_period with koi_period, log_depth with koi_depth.
C23_DerivePerFormula ==
    (call.op \in {"predict_one", "predict_batch"}) =>
        \A df \in {DerivedFrame(call.payload)} :
            /\ "duty_cycle" \in df.cols <=> {"koi_period", "koi_duration"} \subseteq InputColumns
            /\ "depth_frac" \in df.cols <=> "koi_depth" \in InputColumns
            /\ "rprstar_est" \in df.cols <=> "koi_depth" \in InputColumns
            /\ "log_period" \in df.cols <=> "koi_period" \in InputColumns
            /\ "log_depth" \in df.cols <=> "koi_depth" \in InputColumns

\* C24: the matrix a predict_one or predict_batch call hands to the classifier has one
\* row per record and exactly the configured FEATURES as columns, none of the other
\* input columns; a configured column that the frame lacks after coercion and
\* derivation is in the matrix and is missing (NaN) before imputation.
C24_AlignedMatrix ==
    (call.op \in {"predict_one", "predict_batch"}) =>
        /\ Len(call.X) = Len(call.payload)
        /\ \A i \in DOMAIN call.X : DOMAIN call.X[i] = SeqToSet(FEATURES)
        /\ \A df \in {DerivedFrame(call.payload)} :
             \A aligned \in {PrepAligned(call.payload)} :
                 \A i \in DOMAIN aligned :
                     /\ DOMAIN aligned[i] = SeqToSet(FEATURES)
                     /\ \A c \in SeqToSet(FEATURES) \ df.cols : IsNaN(aligned[i][c])

\* a call whose records hold a column that is no feature and lack a configured one
C24_Witness ==
    /\ call.op = "predict_batch"
    /\ InputColumns \ SeqToSet(FEATURES) # {}
    /\ SeqToSet(FEATURES) \ InputColumns # {}
    /\ Len(call.X) = 2
    /\ DOMAIN call.X[1] = SeqToSet(FEATURES)

\* the fields of the batch whose value cannot be parsed as a number
Unparsable ==
    {ic \in (DOMAIN call.payload) \X InputColumns :
        /\ ic[2] \in DOMAIN call.payload[ic[1]]
        /\ Kind(call.payload[ic[1]][ic[2]]) = "str"
        /\ IsNaN(ToNumeric(call.payload[ic[1]][ic[2]]))}

\* C25: when one field of one record of a batch that gives every base feature cannot be
\* parsed as a number, predict_batch returns a row for every record, the matrix it
\* scored holds no missing value, and every numeric input value is in the matrix as given.
C25_BadFieldRecovered ==
    (/\ call.op = "predict_batch"
     /\ \A i \in DOMAIN call.payload : SeqToSet(BASE_FEATURES) \subseteq DOMAIN call.payload[i]
     /\ Cardinality(Unparsable) = 1) =>
        /\ call.status = "ok"
        /\ Len(call.out) = Len(call.payload)
        /\ ~HasNaN(call.X)
        /\ \A i \in DOMAIN call.payload :
             \A c \in SeqToSet(BASE_FEATURES) :
                 IsNum(call.payload[i][c]) => call.X[i][c] = call.payload[i][c]

\* C26: for a record whose koi_depth is a number, derivation gives depth_frac and
\* log_depth; a depth of zero or below is floored at 1e-9, so depth_frac is 1e-9 * 1e-6
\* and log_depth is -9, and a positive depth gives depth_frac = depth * 1e-6.
C26_DepthFloor ==
    (/\ call.op = "predict_one"
     /\ "koi_depth" \in DOMAIN call.payload[1]
     /\ IsNum(call.payload[1]["koi_depth"])) =>
        \A df \in {DerivedFrame(call.payload)} :
            \A depth \in {call.payload[1]["koi_depth"]} :
                /\ {"depth_frac", "log_depth"} \subseteq df.cols
                /\ N(depth) <= 0 => /\ df.rows[1]["depth_frac"] = Micro(Floor)
                                    /\ df.rows[1]["log_depth"] = IntV(-9)
                /\ N(depth) > 0 => df.rows[1]["depth_frac"] = Micro(depth)

\* the positions of the query whose candidate yields a non-empty payload
ScoredPositions == {i \in DOMAIN call.input : DOMAIN CandidatePayload(call.input[i]) # {}}

\* C27: a batch_probability_from_candidates call that returns gives exactly one entry for
\* each candidate with a non-empty payload and none for the others; the entry holds that
\* candidate's metadata with the probability and label predict_batch computed for that
\* candidate's row; the entries are in ascending order of their probability field.
C27_BatchAdapter ==
    (call.op = "batch_probability_from_candidates" /\ call.status = "ok") =>
        /\ Len(call.out) = Cardinality(ScoredPositions)
        /\ \A i \in ScoredPositions :
             \E row \in {Cardinality({j \in ScoredPositions : j <= i})} :
                 /\ call.payload[row] = CandidatePayload(call.input[i])
                 /\ \E k \in DOMAIN call.out :
                      /\ call.out[k].meta = CandidateMeta(call.input[i])
                      /\ call.out[k].probability_confirmed =
                            Proba(RF, call.X[row], FEATURES)
                      /\ call.out[k].label =
                            AdapterLabel(LabelOf(Proba(RF, call.X[row], FEATURES), THRESHOLD))
                      /\ \A m \in DOMAIN call.out :
                            call.out[m].meta["candidate_id"] = IntV(call.input[i].id) => m = k
        /\ \A k \in DOMAIN call.out :
             k < Len(call.out) => call.out[k].probability <= call.out[k + 1].probability

\* a returned call that skipped no candidate and reports the second one first
C27_Witness ==
    /\ call.op = "batch_probability_from_candidates"
    /\ call.status = "ok"
    /\ Len(call.input) = 2
    /\ Len(call.out) = 2
    /\ call.out[1].meta["candidate_id"] = IntV(call.input[2].id)
    /\ call.out[1].probability < call.out[2].probability

\* C28: when a training run has returned, the threshold in the configuration file of its
\* version, the threshold of its TrainResult and the threshold its validation and test
\* labels were predicted with are one value, and the features list of the file is the
\* list the classifier was fitted with: the eleven base features, then the five derived.
C28_OneThreshold ==
    \A r \in OneRun :
        run[r].pc = "done" =>
            \A cfg \in {versions[run[r].ts].cfg}, ds \in {Dataset(run[r].file)} :
                /\ cfg.exists /\ cfg.has_threshold
                /\ cfg.threshold = TrainResult(r).threshold
                /\ run[r].yhat_val =
                     PredictedLabels(ValidationRows(ds, run[r].model, run[r].split.val),
                                     cfg.threshold)
                /\ run[r].yhat_test =
                     PredictedLabels(ValidationRows(ds, run[r].model, run[r].split.test),
                                     cfg.threshold)
                /\ cfg.features = TrainResult(r).features
                /\ cfg.features = run[r].features
                /\ cfg.features = BASE_FEATURES \o DERIVED_FEATURES

\* a run that returned with a numeric threshold that splits its validation rows
C28_Witness ==
    /\ run["A"].pc = "done"
    /\ run["A"].mode = NumMode(45)
    /\ versions[run["A"].ts].cfg.threshold = 45
    /\ \E i, j \in DOMAIN run["A"].yhat_val :
         run["A"].yhat_val[i] = 0 /\ run["A"].yhat_val[j] = 1

\* every row of kepler_clean.csv has a Kepler candidate that was made from it
AllImported ==
    /\ current.csv.exists
    /\ \A i \in DOMAIN current.csv.rows :
         \E j \in DOMAIN db :
            IsKepler(db[j]) /\ db[j].additional_data = current.csv.rows[i]

SyncStep == call.op = "none" /\ call'.op = "sync_kepler_data"

\* the candidates that had a prediction are in the table as they were
ScoredKept == \A i \in DOMAIN db : db[i].ml_prediction # None => db'[i] = db[i]

\* C29: a sync that finds every row of kepler_clean already imported leaves the set
\* of candidate rows as it was, and the backfill of a sync rewrites ml_prediction and
\* ml_confidence only of candidates whose ml_prediction is null
C29_SyncIdempotent ==
    [][SyncStep =>
         /\ AllImported => {db'[i].id : i \in DOMAIN db'} = {db[i].id : i \in DOMAIN db}
         /\ Len(db') >= Len(db) /\ ScoredKept]_vars

ImportFailedStep ==
    /\ call.op = "none"
    /\ call'.op = "import_kepler_clean"
    /\ call'.status = "DatabaseError"

\* C30: when import_kepler_clean fails partway through the file, with or without
\* --truncate, every Kepler candidate that was in the table before the command is in
\* it afterwards
C30_ImportAllOrNothing ==
    [][ImportFailedStep =>
         \A i \in DOMAIN db :
            IsKepler(db[i]) => \E j \in DOMAIN db' : db'[j] = db[i]]_vars

====
